---------------------------- MODULE Spec2Model ----------------------------
(***************************************************************************)
(* Model of the static-site packager (src/App.tsx, src/utils.ts,           *)
(* src/services/geminiService.ts, the useProjectState hook).               *)
(*                                                                         *)
(* Strings that the code inspects with regular expressions (HTML content,  *)
(* placeholder values, global scripts, href values) are sequences of       *)
(* atoms.  An atom is a short piece of text that none of the regular       *)
(* expressions of the code can split: "[[", "]]", "{{", "}}", a blank, a   *)
(* newline, a word, an attribute opener such as href=" , a quote, a path   *)
(* segment ending in "/", a file name.  The bracket atoms have even        *)
(* length and no other atom holds a bracket, so every match of the code's  *)
(* expressions on the joined text begins and ends at an atom boundary.     *)
(* A path is the sequence of its segments, directories spelt with the      *)
(* trailing slash: <<"sub/", "about.html">> is sub/about.html.             *)
(***************************************************************************)
EXTENDS Integers, Sequences, FiniteSets

\* null and undefined: an optional value is a sequence of no or one element,
\* a missing file id is the empty sequence (a file id is a pair)
Null == <<>>
Some(x) == <<x>>
NoId == <<>>

----------------------------------------------------------------------------
(* Sequences                                                               *)

Range(s) == {s[i] : i \in 1..Len(s)}

RECURSIVE Concat(_)
Concat(ss) == IF ss = <<>> THEN <<>> ELSE Head(ss) \o Concat(Tail(ss))

RECURSIVE SelectIdx(_, _, _)
\* the indices i >= from of s, in order, with s[i] \in keep
SelectIdx(s, keep, from) ==
    IF from > Len(s) THEN <<>>
    ELSE (IF s[from] \in keep THEN <<from>> ELSE <<>>) \o SelectIdx(s, keep, from + 1)

RECURSIVE SeqsUpTo(_, _)
SeqsUpTo(S, n) ==
    IF n = 0 THEN {<<>>}
    ELSE LET shorter == SeqsUpTo(S, n - 1)
         IN  shorter \cup {Append(s, x) : s \in {t \in shorter : Len(t) = n - 1}, x \in S}

NoDuplicates(s) == \A i, j \in 1..Len(s) : s[i] = s[j] => i = j

----------------------------------------------------------------------------
(* JavaScript objects used as maps: insertion-ordered <<key, value>> pairs *)
(* (no key of the model is an integer-like string, which JavaScript would  *)
(* move to the front).                                                     *)

ObjKeys(o) == [i \in 1..Len(o) |-> o[i][1]]

ObjHas(o, k) == \E i \in 1..Len(o) : o[i][1] = k

\* { ...o, [k]: v }
ObjSet(o, k, v) ==
    IF ObjHas(o, k)
    THEN [i \in 1..Len(o) |-> IF o[i][1] = k THEN <<k, v>> ELSE o[i]]
    ELSE Append(o, <<k, v>>)

----------------------------------------------------------------------------
(* Text: whitespace, trim, the placeholder scan of processFiles            *)

Whitespace == {" ", "\n"}
Openers == {"[[", "{{"}
Closers == {"]]", "}}"}

RECURSIVE SkipWs(_, _)
\* \s* from position p: the first position >= p that holds no whitespace
SkipWs(s, p) ==
    IF p <= Len(s) /\ s[p] \in Whitespace THEN SkipWs(s, p + 1) ELSE p

RECURSIVE TrimLeft(_)
TrimLeft(s) == IF s # <<>> /\ Head(s) \in Whitespace THEN TrimLeft(Tail(s)) ELSE s

RECURSIVE TrimRight(_)
TrimRight(s) ==
    IF s # <<>> /\ s[Len(s)] \in Whitespace THEN TrimRight(SubSeq(s, 1, Len(s) - 1)) ELSE s

\* String.prototype.trim
Trim(s) == TrimRight(TrimLeft(s))

NoMatch == [ok |-> FALSE, name |-> <<>>, end |-> 0]

RECURSIVE LazyName(_, _, _)
\* (.*?)\s*(?:\]\]|}}) with the capture starting at s and, so far, ending
\* before e: the capture grows one atom at a time, never over a newline
LazyName(c, s, e) ==
    LET w == SkipWs(c, e)
    IN  IF w <= Len(c) /\ c[w] \in Closers
        THEN [ok |-> TRUE, name |-> SubSeq(c, s, e - 1), end |-> w + 1]
        ELSE IF e <= Len(c) /\ c[e] # "\n"
             THEN LazyName(c, s, e + 1)
             ELSE NoMatch

\* one match of /(?:\[\[|{{)\s*(.*?)\s*(?:\]\]|}})/ starting at p
PlaceholderMatchAt(c, p) ==
    IF p <= Len(c) /\ c[p] \in Openers
    THEN LazyName(c, SkipWs(c, p + 1), SkipWs(c, p + 1))
    ELSE NoMatch

RECURSIVE MatchAllFrom(_, _)
MatchAllFrom(c, p) ==
    IF p > Len(c) THEN <<>>
    ELSE LET m == PlaceholderMatchAt(c, p)
         IN  IF m.ok THEN <<Trim(m.name)>> \o MatchAllFrom(c, m.end)
             ELSE MatchAllFrom(c, p + 1)

\* Array.from(content.matchAll(placeholderRegex), m => m[1].trim())
allMatches(content) == MatchAllFrom(content, 1)

RECURSIVE DedupFrom(_, _)
DedupFrom(s, seen) ==
    IF s = <<>> THEN <<>>
    ELSE IF Head(s) \in seen THEN DedupFrom(Tail(s), seen)
         ELSE <<Head(s)>> \o DedupFrom(Tail(s), seen \cup {Head(s)})

\* the scan without the Set: every occurrence kept (a variant of allPlaceholders
\* that PlaceholdersPartitionScan must reject)
allPlaceholdersKeepingRepeats(content) == allMatches(content)

\* [...new Set(allMatches)]
allPlaceholders(content) == DedupFrom(allMatches(content), {})

\* the words of the model that begin with link_ or url_ in any letter case
LinkPrefixedWords == {"link_about", "link_home", "URL_c"}

\* /^(link|url)_/i.test(p)
IsLinkName(p) == p # <<>> /\ Head(p) \in LinkPrefixedWords

RECURSIVE SelectSeq2(_, _)
SelectSeq2(s, keepLink) ==
    IF s = <<>> THEN <<>>
    ELSE (IF IsLinkName(Head(s)) = keepLink THEN <<Head(s)>> ELSE <<>>)
         \o SelectSeq2(Tail(s), keepLink)

textPlaceholders(content) == SelectSeq2(allPlaceholders(content), FALSE)

linkPlaceholderKeys(content) == SelectSeq2(allPlaceholders(content), TRUE)

\* keys.reduce((acc, p) => ({ ...acc, [p]: '' }), {}) with '' as the value
RECURSIVE EmptyValued(_, _, _)
EmptyValued(keys, acc, empty) ==
    IF keys = <<>> THEN acc
    ELSE EmptyValued(Tail(keys), ObjSet(acc, Head(keys), empty), empty)

----------------------------------------------------------------------------
(* String.prototype.replace and substituteAllPlaceholders (src/utils.ts)   *)

\* the replacement text of String.replace: "$&" stands for the matched text
RECURSIVE ExpandReplacement(_, _)
ExpandReplacement(repl, matched) ==
    IF repl = <<>> THEN <<>>
    ELSE (IF Head(repl) = "$&" THEN matched ELSE <<Head(repl)>>)
         \o ExpandReplacement(Tail(repl), matched)

\* the position after a match of  open \s* key \s* close  starting at p, or
\* 0; the key is a trimmed name, so \s* takes every blank before it
TokenEnd(c, p, open, close, key) ==
    IF p <= Len(c) /\ c[p] = open
    THEN LET s == SkipWs(c, p + 1)
             k == s + Len(key)
         IN  IF k - 1 <= Len(c) /\ SubSeq(c, s, k - 1) = key
             THEN LET w == SkipWs(c, k)
                  IN  IF w <= Len(c) /\ c[w] = close THEN w + 1 ELSE 0
             ELSE 0
    ELSE 0

RECURSIVE ReplaceTokenFrom(_, _, _, _, _, _)
ReplaceTokenFrom(c, p, open, close, key, repl) ==
    IF p > Len(c) THEN <<>>
    ELSE LET e == TokenEnd(c, p, open, close, key)
         IN  IF e = 0
             THEN <<c[p]>> \o ReplaceTokenFrom(c, p + 1, open, close, key, repl)
             ELSE ExpandReplacement(repl, SubSeq(c, p, e - 1))
                  \o ReplaceTokenFrom(c, e, open, close, key, repl)

\* result.replace(placeholder1, v).replace(placeholder2, v)
ReplaceBothForms(c, key, repl) ==
    ReplaceTokenFrom(ReplaceTokenFrom(c, 1, "[[", "]]", key, repl), 1, "{{", "}}", key, repl)

RECURSIVE SubstituteText(_, _)
SubstituteText(result, entries) ==
    IF entries = <<>> THEN result
    ELSE SubstituteText(ReplaceBothForms(result, Head(entries)[1], Head(entries)[2]),
                        Tail(entries))

\* new Map(allHtmlFiles.map(f => [f.id, f])).get(id): the last file with the id
HasFileWithId(allHtmlFiles, id) == \E i \in 1..Len(allHtmlFiles) : allHtmlFiles[i].id = id

FileById(allHtmlFiles, id) ==
    LET last == CHOOSE i \in 1..Len(allHtmlFiles) :
                    /\ allHtmlFiles[i].id = id
                    /\ \A j \in 1..Len(allHtmlFiles) : allHtmlFiles[j].id = id => j <= i
    IN  allHtmlFiles[last]

RECURSIVE SubstituteLinks(_, _, _)
SubstituteLinks(result, entries, allHtmlFiles) ==
    IF entries = <<>> THEN result
    ELSE LET key == Head(entries)[1]
             targetFileId == Head(entries)[2]
         IN  IF HasFileWithId(allHtmlFiles, targetFileId)
             THEN SubstituteLinks(
                      ReplaceBothForms(result, key,
                                       <<FileById(allHtmlFiles, targetFileId).newFileName>>),
                      Tail(entries), allHtmlFiles)
             ELSE SubstituteLinks(result, Tail(entries), allHtmlFiles)

substituteAllPlaceholders(file, allHtmlFiles) ==
    SubstituteLinks(SubstituteText(file.content, file.placeholderValues),
                    file.linkPlaceholders, allHtmlFiles)

----------------------------------------------------------------------------
(* handlePackageZip: the href/src rewrite, the global scripts, the archive *)

\* a file's content is a string (read as text) or an ArrayBuffer
TextContent(t) == [kind |-> "string", data |-> t]
BinaryContent(bytes) == [kind |-> "ArrayBuffer", data |-> bytes]

QuotedAttrOpeners == {"href=\"", "href='", "src=\"", "src='"}
Quotes == {"\"", "'"}
\* the atoms that hold a quote character: [^"']+ cannot run over them
QuoteBearing == QuotedAttrOpeners \cup Quotes
Schemes == {"http://", "https://"}

\* (href|src) of an attribute opener
AttrName(opener) == IF opener \in {"href=\"", "href='"} THEN "href" ELSE "src"

RECURSIVE FirstQuoteBearing(_, _)
FirstQuoteBearing(c, p) ==
    IF p > Len(c) \/ c[p] \in QuoteBearing THEN p ELSE FirstQuoteBearing(c, p + 1)

\* the position of the closing quote of a match of
\* /(href|src)=["'](?!https?:\/\/)([^"']+)["']/ starting at p, or 0.  The
\* contents of the model close every quoted attribute with a quote atom.
HrefMatchEnd(c, p) ==
    IF p < Len(c) /\ c[p] \in QuotedAttrOpeners /\ c[p + 1] \notin Schemes
    THEN LET q == FirstQuoteBearing(c, p + 1)
         IN  IF q > p + 1 /\ q <= Len(c) /\ c[q] \in Quotes THEN q ELSE 0
    ELSE 0

\* a path segment that ends in "/"
IsDirSegment(a) == a \in {"sub/", "../", "./", "/"}

\* htmlFile.path.substring(0, htmlFile.path.lastIndexOf('/') + 1)
DirOf(path) == IF path = <<>> THEN <<>> ELSE SubSeq(path, 1, Len(path) - 1)

\* the URL parser percent-encodes a blank of a path segment and leaves a
\* percent sign as it is; the other names of the model are made of
\* characters it does not encode
UrlEncode(a) == IF a = "o nas.html" THEN "o%20nas.html" ELSE a

RECURSIVE ResolveFrom(_, _)
\* the segments of path applied to the directory dir, dot segments removed
ResolveFrom(dir, path) ==
    IF path = <<>> THEN dir
    ELSE LET a == Head(path)
         IN  IF a = "../"
             THEN ResolveFrom(IF dir = <<>> THEN <<>> ELSE SubSeq(dir, 1, Len(dir) - 1),
                              Tail(path))
             ELSE IF a = "./" THEN ResolveFrom(dir, Tail(path))
             ELSE IF a = "/" THEN ResolveFrom(<<>>, Tail(path))
             ELSE ResolveFrom(Append(dir, a), Tail(path))

\* new URL(path, `file:///${dir}`).pathname.substring(1)
UrlPathname(dir, path) ==
    [i \in 1..Len(ResolveFrom(dir, path)) |-> UrlEncode(ResolveFrom(dir, path)[i])]

RECURSIVE LastDirIndex(_, _)
\* the index of the last segment of path that holds a "/", 0 if none
LastDirIndex(path, i) ==
    IF i = 0 THEN 0 ELSE IF IsDirSegment(path[i]) THEN i ELSE LastDirIndex(path, i - 1)

\* a Map built from [key, value] entries, in order: the last entry of a key wins
MapHas(entries, k) == \E i \in 1..Len(entries) : entries[i][1] = k

MapGet(entries, k) ==
    LET last == CHOOSE i \in 1..Len(entries) :
                    /\ entries[i][1] = k
                    /\ \A j \in 1..Len(entries) : entries[j][1] = k => j <= i
    IN  entries[last][2]

\* new Map(htmlFiles.map(f => [f.name, f.newFileName]))
htmlFileNameMap(htmlFiles) ==
    [i \in 1..Len(htmlFiles) |-> <<(<<htmlFiles[i].name>>), htmlFiles[i].newFileName>>]

\* new Map(htmlFiles.map(f => [f.path, f.newFileName]))
htmlFilePathMap(htmlFiles) ==
    [i \in 1..Len(htmlFiles) |-> <<htmlFiles[i].path, htmlFiles[i].newFileName>>]

RECURSIVE ReplaceFirst(_, _, _)
\* path.replace(baseName, newName): the first occurrence
ReplaceFirst(path, old, new) ==
    IF path = <<>> THEN <<>>
    ELSE IF Head(path) = old THEN <<new>> \o Tail(path)
    ELSE <<Head(path)>> \o ReplaceFirst(Tail(path), old, new)

\* the callback of the href/src replace of handlePackageZip: the text that
\* replaces the match  opener path quote  in the page htmlFile
RewriteHref(opener, path, quote, htmlFile, htmlFiles) ==
    LET attr == AttrName(opener)
        fullPath == UrlPathname(DirOf(htmlFile.path), path)
        cut == LastDirIndex(path, Len(path))
        baseName == SubSeq(path, cut + 1, Len(path))
    IN  IF MapHas(htmlFilePathMap(htmlFiles), fullPath)
        THEN <<attr \o "=\"">> \o SubSeq(path, 1, cut)
             \o <<MapGet(htmlFilePathMap(htmlFiles), fullPath)>> \o <<"\"">>
        ELSE IF baseName # <<>> /\ MapHas(htmlFileNameMap(htmlFiles), baseName)
        THEN <<attr \o "=\"">>
             \o ReplaceFirst(path, baseName[1], MapGet(htmlFileNameMap(htmlFiles), baseName))
             \o <<"\"">>
        ELSE <<opener>> \o path \o <<quote>>

RECURSIVE RewriteHrefsFrom(_, _, _, _)
RewriteHrefsFrom(c, p, htmlFile, htmlFiles) ==
    IF p > Len(c) THEN <<>>
    ELSE LET q == HrefMatchEnd(c, p)
         IN  IF q = 0
             THEN <<c[p]>> \o RewriteHrefsFrom(c, p + 1, htmlFile, htmlFiles)
             ELSE RewriteHref(c[p], SubSeq(c, p + 1, q - 1), c[q], htmlFile, htmlFiles)
                  \o RewriteHrefsFrom(c, q + 1, htmlFile, htmlFiles)

RECURSIVE IndexOf(_, _, _)
IndexOf(c, a, p) == IF p > Len(c) THEN 0 ELSE IF c[p] = a THEN p ELSE IndexOf(c, a, p + 1)

\* if (globalScripts.trim()) finalContent.replace('</head>', `${...}\n</head>`)
InjectGlobalScripts(finalContent, scripts) ==
    LET at == IndexOf(finalContent, "</head>", 1)
    IN  IF Trim(scripts) = <<>> \/ at = 0 THEN finalContent
        ELSE SubSeq(finalContent, 1, at - 1)
             \o ExpandReplacement(Trim(scripts) \o <<"\n", "</head>">>, <<"</head>">>)
             \o SubSeq(finalContent, at + 1, Len(finalContent))

\* the content written to the archive for one HTML file
FinalContent(htmlFile, htmlFiles, scripts) ==
    InjectGlobalScripts(
        RewriteHrefsFrom(substituteAllPlaceholders(htmlFile, htmlFiles), 1, htmlFile, htmlFiles),
        scripts)

FinalPath(htmlFile) == DirOf(htmlFile.path) \o <<htmlFile.newFileName>>

\* getDeploymentInstructions(), JSON.stringify({}, null, 2)
deploymentInstructions == <<"### Deployment instructions">>
VercelJson == <<"{}">>

\* the zip.file(path, content) calls of handlePackageZip, in order
ZipCalls(fs, hfs, scripts) ==
    [i \in 1..Len(hfs) |->
        <<FinalPath(hfs[i]), TextContent(FinalContent(hfs[i], hfs, scripts))>>]
    \o [i \in 1..Len(SelectIdx([j \in 1..Len(fs) |-> fs[j].type # "text/html"], {TRUE}, 1)) |->
          LET f == fs[SelectIdx([j \in 1..Len(fs) |-> fs[j].type # "text/html"], {TRUE}, 1)[i]]
          IN  <<f.path, f.content>>]
    \o << <<(<<"README.md">>), TextContent(deploymentInstructions)>>,
          <<(<<"vercel.json">>), TextContent(VercelJson)>> >>

\* JSZip: a later zip.file call on the same path replaces the entry
ZipEntries(calls) ==
    [p \in {calls[i][1] : i \in 1..Len(calls)} |->
        calls[CHOOSE i \in 1..Len(calls) :
                 calls[i][1] = p /\ \A j \in 1..Len(calls) : calls[j][1] = p => j <= i][2]]

----------------------------------------------------------------------------
(* useProjectState: what is written to local storage                      *)

RECURSIVE arrayBufferToBase64(_)
\* window.btoa of the bytes: sextets 0..63, 64 is the padding "="
arrayBufferToBase64(bytes) ==
    IF bytes = <<>> THEN <<>>
    ELSE IF Len(bytes) = 1
    THEN <<bytes[1] \div 4, (bytes[1] % 4) * 16, 64, 64>>
    ELSE IF Len(bytes) = 2
    THEN <<bytes[1] \div 4, (bytes[1] % 4) * 16 + bytes[2] \div 16, (bytes[2] % 16) * 4, 64>>
    ELSE <<bytes[1] \div 4, (bytes[1] % 4) * 16 + bytes[2] \div 16,
           (bytes[2] % 16) * 4 + bytes[3] \div 64, bytes[3] % 64>>
         \o arrayBufferToBase64(SubSeq(bytes, 4, Len(bytes)))

\* every content stored as text (a variant of StoredFileOf that
\* RehydrateAfterPersist must reject)
StoredFileOfAsText(file) ==
    [id |-> file.id, path |-> file.path, name |-> file.name, type |-> file.type,
     isBinary |-> FALSE, content |-> file.content.data]

StoredFileOf(file) ==
    [id |-> file.id, path |-> file.path, name |-> file.name, type |-> file.type,
     isBinary |-> file.content.kind = "ArrayBuffer",
     content |-> IF file.content.kind = "ArrayBuffer"
                 THEN arrayBufferToBase64(file.content.data)
                 ELSE file.content.data]

StoredHtmlFileOf(hf) ==
    [id |-> hf.id, path |-> hf.path, name |-> hf.name, content |-> hf.content,
     type |-> hf.type, isBinary |-> FALSE, isMain |-> hf.isMain,
     newFileName |-> hf.newFileName, placeholders |-> hf.placeholders,
     placeholderValues |-> hf.placeholderValues, linkPlaceholders |-> hf.linkPlaceholders]

\* the value persistState stores under PROJECT_STATE_KEY
persistState(fs, hfs, scripts) ==
    [files |-> [i \in 1..Len(fs) |-> StoredFileOf(fs[i])],
     htmlFiles |-> [i \in 1..Len(hfs) |-> StoredHtmlFileOf(hfs[i])],
     globalScripts |-> scripts]

RECURSIVE base64ToArrayBuffer(_)
\* window.atob of the sextets: the bytes
base64ToArrayBuffer(base64) ==
    IF base64 = <<>> THEN <<>>
    ELSE (IF base64[3] = 64
          THEN <<base64[1] * 4 + base64[2] \div 16>>
          ELSE IF base64[4] = 64
          THEN <<base64[1] * 4 + base64[2] \div 16,
                 (base64[2] % 16) * 16 + base64[3] \div 4>>
          ELSE <<base64[1] * 4 + base64[2] \div 16,
                 (base64[2] % 16) * 16 + base64[3] \div 4,
                 (base64[3] % 4) * 64 + base64[4]>>)
         \o base64ToArrayBuffer(SubSeq(base64, 5, Len(base64)))

\* { ...sf, content, objectUrl }
RehydratedFile(sf) ==
    [id |-> sf.id, path |-> sf.path, name |-> sf.name, type |-> sf.type,
     isBinary |-> sf.isBinary,
     content |-> IF sf.isBinary THEN BinaryContent(base64ToArrayBuffer(sf.content))
                 ELSE TextContent(sf.content)]

\* the project state the effect of useProjectState sets from the stored one
Rehydrated(storedState) ==
    [files |-> [i \in 1..Len(storedState.files) |-> RehydratedFile(storedState.files[i])],
     htmlFiles |-> storedState.htmlFiles,
     globalScripts |-> storedState.globalScripts]

RECURSIVE ContentLength(_)
\* the length of the contents of stored files, one after the other
ContentLength(storedFiles) ==
    IF storedFiles = <<>> THEN 0
    ELSE Len(Head(storedFiles).content) + ContentLength(Tail(storedFiles))

\* localStorage.setItem throws when the value is longer than the browser
\* allows (about five million characters); a unit here is an atom of text
\* or a base64 character.  The catch block of persistState logs the error.
StorageQuota == 64

SetItemThrows(stateToStore) ==
    ContentLength(stateToStore.files) + ContentLength(stateToStore.htmlFiles)
        + Len(stateToStore.globalScripts) > StorageQuota

----------------------------------------------------------------------------
(* optimizeFileName (src/services/geminiService.ts): the reply of the AI   *)

\* String.prototype.toLowerCase on the words of the model
ToLowerAtom(a) ==
    IF a = "O-Nas" THEN "o-nas" ELSE IF a = ".HTML" THEN ".html" ELSE a

\* the words of the model that match [a-z0-9-]+
KebabWords == {"o-nas", "kontakty", "optimized-page"}

RECURSIVE JoinAtoms(_)
JoinAtoms(t) == IF t = <<>> THEN "" ELSE Head(t) \o JoinAtoms(Tail(t))

\* response.text.trim().toLowerCase().replace(/\.html$/, ''), then the test
\* of /^[a-z0-9-]+$/ and the fallback
optimizeFileName(responseText) ==
    LET lower == [i \in 1..Len(Trim(responseText)) |-> ToLowerAtom(Trim(responseText)[i])]
        text == IF lower # <<>> /\ lower[Len(lower)] = ".html"
                THEN SubSeq(lower, 1, Len(lower) - 1) ELSE lower
    IN  IF text # <<>> /\ \A i \in 1..Len(text) : text[i] \in KebabWords
        THEN JoinAtoms(text)
        ELSE "optimized-page"

----------------------------------------------------------------------------
(* applyAnalysisFixes (src/services/geminiService.ts): the reply of the AI *)

\* the errors generateContent throws, and the malformed-reply error thrown
\* inside the same try block
RawInvalidKey == "API key not valid. Please pass a valid API key."
RawNetwork == "fetch failed"
ErrMalformed == "The AI returned incorrect HTML. Please try again."
ErrInvalidKey == "API key is invalid. Please check it in the settings."
ErrFixApi == "Could not apply the fixes because of an API error."
ErrNoKey == "No API key given."

\* error.message.includes('API key not valid') || ...('permission denied')
\* || ...('API_KEY_INVALID')
NamesInvalidKey(message) == message = RawInvalidKey

\* <fence> stands for the three backquotes of a Markdown code fence
Fences == {"<fence>", "<fence>html"}
DoctypeAtoms == {"<!DOCTYPE html>", "<!doctype html>"}

RECURSIVE FirstFence(_, _, _)
\* the first position from p on that holds an atom of atoms, 0 if none
FirstFence(t, atoms, p) ==
    IF p > Len(t) THEN 0 ELSE IF t[p] \in atoms THEN p ELSE FirstFence(t, atoms, p + 1)

\* fixedHtml after the clean-up: the group of /<fence>html\s*([\s\S]*?)<fence>/ when
\* it is not empty, else the text without its first and last three
\* characters when it starts and ends with a fence
StripFences(responseText) ==
    LET t == Trim(responseText)
        open == FirstFence(t, {"<fence>html"}, 1)
        from == IF open = 0 THEN 0 ELSE SkipWs(t, open + 1)
        close == IF open = 0 THEN 0 ELSE FirstFence(t, Fences, from)
        group == IF close = 0 THEN <<>> ELSE SubSeq(t, from, close - 1)
    IN  IF group # <<>> THEN group
        ELSE IF Len(t) >= 2 /\ t[1] \in Fences /\ t[Len(t)] = "<fence>"
        THEN Trim((IF t[1] = "<fence>html" THEN <<"html">> ELSE <<>>)
                  \o SubSeq(t, 2, Len(t) - 1))
        ELSE t

\* fixedHtml.toLowerCase().includes('<!doctype html>')
HasDoctype(fixedHtml) == \E i \in 1..Len(fixedHtml) : fixedHtml[i] \in DoctypeAtoms

\* what the promise of applyAnalysisFixes settles with, for a reply of the
\* AI (its text, or the error generateContent throws; "" for no error)
applyAnalysisFixes(key, reply) ==
    IF key = "" THEN [fixedHtml |-> <<>>, error |-> ErrNoKey]
    ELSE LET thrown == IF reply.error # "" THEN reply.error
                       ELSE IF HasDoctype(StripFences(reply.text)) THEN ""
                       ELSE ErrMalformed
         IN  IF thrown = ""
             THEN [fixedHtml |-> StripFences(reply.text), error |-> ""]
             ELSE [fixedHtml |-> <<>>,
                   error |-> IF NamesInvalidKey(thrown) THEN ErrInvalidKey ELSE ErrFixApi]

----------------------------------------------------------------------------
(* The state of the application                                            *)

VARIABLES
    disk,                     \* the files on the user's machine (never changes)
    files,                    \* projectState.files
    htmlFiles,                \* projectState.htmlFiles
    globalScripts,            \* projectState.globalScripts
    stored,                   \* localStorage[PROJECT_STATE_KEY], Null if absent
    selectedFileId,           \* NoId for null
    isLoading,                \* optimizing, zipping, analyzingFileId, applyingFixes
    notification,             \* Null or Some(Notice)
    isSettingsModalOpen,
    apiKey,                   \* localStorage['gemini-api-key'], "" if not set
    tempApiKey,               \* the text in the input of the API key dialog
    previewUrls,              \* the preview URL of each page, by file id
    sidebarView,              \* "settings" or "analysis"
    currentAnalysisReport,    \* NoReport for null
    isGlobalSettingsExpanded,
    uploads,                  \* the processFiles calls that await their readers
    optimizeOp,               \* the handleOptimizeNames call in flight, or Null
    analyzeOps,               \* the handleAnalyzeContent calls in flight
    fixOp,                    \* the handleApplyFixes call in flight, or Null
    zip                       \* the archive handlePackageZip is generating, or Null

projectVars == <<files, htmlFiles, globalScripts, stored>>
uiVars == <<selectedFileId, notification, isSettingsModalOpen, sidebarView,
            currentAnalysisReport, isGlobalSettingsExpanded>>
asyncVars == <<uploads, optimizeOp, analyzeOps, fixOp>>
vars == <<disk, projectVars, uiVars, asyncVars, isLoading, apiKey, tempApiKey,
          previewUrls, zip>>

\* useEffect(() => setTempApiKey(apiKey), [apiKey, isSettingsModalOpen]): when
\* a handler changed one of the two, the effect runs with the render that
\* follows it, before the next event
syncTempApiKey ==
    tempApiKey' = IF isSettingsModalOpen' # isSettingsModalOpen \/ apiKey' # apiKey
                  THEN apiKey'
                  ELSE tempApiKey

\* notification messages (the code's texts are Russian)
MsgAllAdded == "All the selected files are already added."
MsgAdded(n) == "Added new files: " \o (IF n = 1 THEN "1" ELSE IF n = 2 THEN "2"
                                       ELSE IF n = 3 THEN "3" ELSE "more")
MsgDeleted(name) == "File deleted: " \o name
MsgNeedKey == "Please enter your API key in the settings."
MsgOptimized == "File names optimized!"
MsgInvalidKey == "Your API key is invalid. Check it in the settings."
MsgZipError == "Error while creating the ZIP archive."

Notice(message, type) == Some([message |-> message, type |-> type])
NoReport == "<null>"

\* the errors optimizeFileName throws
ErrOptimizeApi == "Could not optimize the file name because of an API error."

\* updateProjectState(newState): merged into the latest state and persisted
UpdateProjectState(fs, hfs, scripts) ==
    /\ files' = fs
    /\ htmlFiles' = hfs
    /\ globalScripts' = scripts
    /\ stored' = IF SetItemThrows(persistState(fs, hfs, scripts)) THEN stored
                 ELSE Some(persistState(fs, hfs, scripts))

\* createPreviewUrl(htmlContent, htmlPath, fileMap): a fresh URL of a blob.
\* The model keeps of a URL what it was created from.
PreviewUrl(htmlContent, htmlPath) == [htmlContent |-> htmlContent, htmlPath |-> htmlPath]

RECURSIVE PreviewsFrom(_, _, _)
\* the loop of generateAllPreviews over the pages rest of hfs:
\* newPreviewUrls[hf.id] = url
PreviewsFrom(rest, hfs, newPreviewUrls) ==
    IF rest = <<>> THEN newPreviewUrls
    ELSE PreviewsFrom(Tail(rest), hfs,
                      ObjSet(newPreviewUrls, Head(rest).id,
                             PreviewUrl(substituteAllPlaceholders(Head(rest), hfs),
                                        Head(rest).path)))

generateAllPreviews(hfs) == PreviewsFrom(hfs, hfs, <<>>)

\* the effect on [files, htmlFiles] after a render that changed one of them,
\* the handler having left previewUrls as set.  createPreviewUrl awaits
\* nothing outside the script, so the loop ends before the next event.  The
\* URLs the effect and its cleanup revoke are those of earlier renders.
previewsAfterChange(set) ==
    IF files' = <<>> /\ htmlFiles' = <<>> THEN set ELSE generateAllPreviews(htmlFiles')

\* a handler that does not touch previewUrls: the effect runs when files or
\* htmlFiles changed (an array built anew from equal files gives equal previews)
previewEffect ==
    previewUrls' = IF files' = files /\ htmlFiles' = htmlFiles THEN previewUrls
                   ELSE previewsAfterChange(previewUrls)

\* delete newUrls[id]
ObjWithout(o, k) == SelectSeq(o, LAMBDA e : e[1] # k)

\* clearProjectState()
clearProjectState ==
    /\ files' = <<>>
    /\ htmlFiles' = <<>>
    /\ globalScripts' = <<>>
    /\ stored' = Null

----------------------------------------------------------------------------
(* What is rendered: a handler can only be invoked through a control that  *)
(* is on the screen and not disabled.  The API key dialog is drawn over    *)
(* the page but disables nothing beneath it (no focus trap, no inert       *)
(* attribute): the controls of the page stay operable from the keyboard.   *)

HasSelectedFileData == \E i \in 1..Len(htmlFiles) : htmlFiles[i].id = selectedFileId

\* files.length === 0 shows the drop zone instead of the cards and sidebar
MainGridShown == files # <<>>

CardShown(id) == MainGridShown /\ \E i \in 1..Len(htmlFiles) : htmlFiles[i].id = id

\* the panel with the optimize, package and reset buttons
GlobalPanelShown ==
    /\ MainGridShown
    /\ \/ ~HasSelectedFileData /\ htmlFiles # <<>>
       \/ HasSelectedFileData /\ sidebarView = "settings" /\ isGlobalSettingsExpanded

hasMainPage == \E i \in 1..Len(htmlFiles) : htmlFiles[i].isMain

\* the button without the main-page test (a variant of PackageButtonDisabled
\* that PackageEnabledIffMainPage must reject)
PackageButtonDisabledWhileZipping == isLoading.zipping

\* disabled={!hasMainPage || isLoading.zipping}
PackageButtonDisabled == ~hasMainPage \/ isLoading.zipping

\* disabled={isLoading.optimizing}
OptimizeButtonDisabled == isLoading.optimizing

----------------------------------------------------------------------------
(* processFiles                                                            *)

TextTypes == {"text/html", "text/css", "text/markdown", "application/javascript", ""}

\* the File objects of a folder pick carry webkitRelativePath, those of a
\* file pick or a drop carry only their name
FileObject(d, withRelativePath) ==
    [name |-> d.name, lastModified |-> d.lastModified, type |-> d.type, data |-> d.data,
     webkitRelativePath |-> IF withRelativePath THEN d.folder \o <<d.name>> ELSE <<>>]

commonBasePath(batch) ==
    IF /\ Len(batch) > 1
       /\ Len(batch[1].webkitRelativePath) > 1
       /\ \A i \in 1..Len(batch) :
             /\ batch[i].webkitRelativePath # <<>>
             /\ batch[i].webkitRelativePath[1] = batch[1].webkitRelativePath[1]
    THEN <<batch[1].webkitRelativePath[1]>>
    ELSE <<>>

PathOfUpload(file, base) ==
    LET originalPath == IF file.webkitRelativePath # <<>>
                        THEN file.webkitRelativePath ELSE <<file.name>>
    IN  IF base # <<>> /\ originalPath # <<>> /\ originalPath[1] = base[1]
        THEN Tail(originalPath) ELSE originalPath

\* `${path}-${file.lastModified}`
FileIdOf(path, lastModified) == <<path, lastModified>>

\* what the FileReader yields: readAsText or readAsArrayBuffer
ReadContent(file) ==
    IF file.type \in TextTypes THEN TextContent(file.data) ELSE BinaryContent(file.data)

\* if (content): the empty string is falsy, an ArrayBuffer never is
Truthy(content) == content.kind = "ArrayBuffer" \/ content.data # <<>>

\* the files of the batch that get a FileReader
ReadIdx(batch, existingFiles) ==
    SelectIdx([i \in 1..Len(batch) |->
                  LET path == PathOfUpload(batch[i], commonBasePath(batch))
                  IN  /\ path # <<>>
                      /\ \A j \in 1..Len(existingFiles) :
                            existingFiles[j].id # FileIdOf(path, batch[i].lastModified)],
              {TRUE}, 1)

NewSiteFile(file, base) ==
    LET path == PathOfUpload(file, base)
    IN  [id |-> FileIdOf(path, file.lastModified), path |-> path, name |-> file.name,
         content |-> ReadContent(file), type |-> file.type]

NewHtmlFile(file) ==
    [id |-> file.id, path |-> file.path, name |-> file.name, type |-> file.type,
     content |-> file.content.data, isMain |-> FALSE, newFileName |-> file.name,
     placeholders |-> textPlaceholders(file.content.data),
     placeholderValues |-> EmptyValued(textPlaceholders(file.content.data), <<>>, <<>>),
     linkPlaceholders |-> EmptyValued(linkPlaceholderKeys(file.content.data), <<>>, NoId)]

RECURSIVE HtmlOf(_)
\* the loop over newFilesWithUrls that collects newHtmlFiles
HtmlOf(newFiles) ==
    IF newFiles = <<>> THEN <<>>
    ELSE (IF Head(newFiles).type = "text/html" THEN <<NewHtmlFile(Head(newFiles))>> ELSE <<>>)
         \o HtmlOf(Tail(newFiles))

\* the part of processFiles after `await Promise.all(filePromises)`,
\* with the files and htmlFiles the call closed over
ProcessFilesSettle(newFiles, closedFiles, closedHtmlFiles) ==
    IF newFiles = <<>>
    THEN /\ notification' = Notice(MsgAllAdded, "info")
         /\ UNCHANGED projectVars
    ELSE /\ UpdateProjectState(closedFiles \o newFiles,
                               closedHtmlFiles \o HtmlOf(newFiles), globalScripts)
         /\ notification' = Notice(MsgAdded(Len(newFiles)), "success")

\* processFiles(batch) up to its await.  When no file needs a reader every
\* promise is already resolved and the rest runs before any other event.
processFiles(batch) ==
    /\ batch # <<>>
    /\ IF ReadIdx(batch, files) = <<>>
       THEN /\ ProcessFilesSettle(<<>>, files, htmlFiles)
            /\ UNCHANGED uploads
       ELSE /\ uploads' = Append(uploads,
                                 [batch |-> batch, readIdx |-> ReadIdx(batch, files),
                                  files |-> files, htmlFiles |-> htmlFiles])
            /\ UNCHANGED <<projectVars, notification>>
    /\ UNCHANGED <<disk, selectedFileId, isSettingsModalOpen, sidebarView,
                   currentAnalysisReport, isGlobalSettingsExpanded, optimizeOp, analyzeOps,
                   fixOp, isLoading, apiKey, zip>>
    /\ syncTempApiKey
    /\ previewEffect

\* the readers of the k-th pending call have all fired; those in failed
\* fired onerror
processFilesLoaded(k, failed) ==
    /\ k \in 1..Len(uploads)
    /\ failed \subseteq Range(uploads[k].readIdx)
    /\ LET op == uploads[k]
           base == commonBasePath(op.batch)
           ok == SelectIdx([i \in 1..Len(op.batch) |->
                               /\ i \in Range(op.readIdx)
                               /\ i \notin failed
                               /\ Truthy(ReadContent(op.batch[i]))], {TRUE}, 1)
           newFiles == [n \in 1..Len(ok) |-> NewSiteFile(op.batch[ok[n]], base)]
       IN  ProcessFilesSettle(newFiles, op.files, op.htmlFiles)
    /\ uploads' = [n \in 1..(Len(uploads) - 1) |-> IF n < k THEN uploads[n] ELSE uploads[n + 1]]
    /\ UNCHANGED <<disk, selectedFileId, isSettingsModalOpen, sidebarView,
                   currentAnalysisReport, isGlobalSettingsExpanded, optimizeOp, analyzeOps,
                   fixOp, isLoading, apiKey, zip>>
    /\ syncTempApiKey
    /\ previewEffect

----------------------------------------------------------------------------
(* The cards: setMainPage, handleDeleteFile, handleUpdateFileName,         *)
(* handleSelectFile                                                        *)

\* htmlFiles.find(f => f.isMain): the id of the first main file, or NoId
OldMainId(hfs) ==
    IF \E i \in 1..Len(hfs) : hfs[i].isMain
    THEN hfs[CHOOSE i \in 1..Len(hfs) :
                 hfs[i].isMain /\ \A j \in 1..Len(hfs) : hfs[j].isMain => i <= j].id
    ELSE NoId

\* the htmlFiles.map(...) of setMainPage
MainPageSet(hfs, id) ==
    [i \in 1..Len(hfs) |->
        [hfs[i] EXCEPT
            !.isMain = (hfs[i].id = id),
            !.newFileName =
                IF hfs[i].id = id THEN "index.html"
                ELSE IF OldMainId(hfs) # NoId /\ hfs[i].id = OldMainId(hfs)
                THEN (IF hfs[i].newFileName = "index.html"
                      THEN hfs[i].name ELSE hfs[i].newFileName)
                ELSE hfs[i].newFileName]]

setMainPage(id) ==
    /\ CardShown(id)
    /\ UpdateProjectState(files, MainPageSet(htmlFiles, id), globalScripts)
    /\ selectedFileId' = id
    /\ UNCHANGED <<disk, notification, isSettingsModalOpen, sidebarView,
                   currentAnalysisReport, isGlobalSettingsExpanded, asyncVars, isLoading,
                   apiKey, zip>>
    /\ syncTempApiKey
    /\ previewEffect

RECURSIVE FilterSeq(_, _)
\* array.filter(f => f.id !== id)
FilterSeq(fs, id) ==
    IF fs = <<>> THEN <<>>
    ELSE (IF Head(fs).id # id THEN <<Head(fs)>> ELSE <<>>) \o FilterSeq(Tail(fs), id)

\* the link placeholders of hf with every target fileIdToDelete emptied
LinksWithout(links, fileIdToDelete) ==
    [i \in 1..Len(links) |->
        IF links[i][2] = fileIdToDelete THEN <<links[i][1], NoId>> ELSE links[i]]

handleDeleteFile(fileIdToDelete) ==
    /\ CardShown(fileIdToDelete)
    /\ \E i \in 1..Len(files) : files[i].id = fileIdToDelete
    /\ LET fileToDelete == files[CHOOSE i \in 1..Len(files) :
                                    /\ files[i].id = fileIdToDelete
                                    /\ \A j \in 1..Len(files) :
                                          files[j].id = fileIdToDelete => i <= j]
           newHtmlFiles ==
               FilterSeq([i \in 1..Len(htmlFiles) |->
                             [htmlFiles[i] EXCEPT !.linkPlaceholders =
                                 LinksWithout(htmlFiles[i].linkPlaceholders, fileIdToDelete)]],
                         fileIdToDelete)
       IN  /\ UpdateProjectState(FilterSeq(files, fileIdToDelete), newHtmlFiles,
                                 globalScripts)
           /\ notification' = Notice(MsgDeleted(fileToDelete.name), "info")
    /\ selectedFileId' = IF selectedFileId = fileIdToDelete THEN NoId ELSE selectedFileId
    /\ UNCHANGED <<disk, isSettingsModalOpen, sidebarView, currentAnalysisReport,
                   isGlobalSettingsExpanded, asyncVars, isLoading, apiKey, zip>>
    /\ syncTempApiKey
    /\ previewUrls' = previewsAfterChange(ObjWithout(previewUrls, fileIdToDelete))

\* the name input of a card is disabled for the main file
handleUpdateFileName(fileId, newName) ==
    /\ MainGridShown
    /\ \E i \in 1..Len(htmlFiles) : htmlFiles[i].id = fileId /\ ~htmlFiles[i].isMain
    /\ UpdateProjectState(files,
                          [i \in 1..Len(htmlFiles) |->
                              IF htmlFiles[i].id = fileId
                              THEN [htmlFiles[i] EXCEPT !.newFileName = newName]
                              ELSE htmlFiles[i]],
                          globalScripts)
    /\ UNCHANGED <<disk, uiVars, asyncVars, isLoading, apiKey, zip>>
    /\ syncTempApiKey
    /\ previewEffect

handleSelectFile(id) ==
    /\ CardShown(id)
    /\ selectedFileId' = id
    /\ sidebarView' = "settings"
    /\ currentAnalysisReport' = NoReport
    /\ isGlobalSettingsExpanded' = FALSE
    /\ UNCHANGED <<disk, projectVars, notification, isSettingsModalOpen, asyncVars,
                   isLoading, apiKey, zip>>
    /\ syncTempApiKey
    /\ previewEffect

----------------------------------------------------------------------------
(* The sidebar of the selected file                                        *)

SettingsTabShown == MainGridShown /\ HasSelectedFileData /\ sidebarView = "settings"

\* the first html file with the selected id (selectedFileData)
selectedFileData ==
    htmlFiles[CHOOSE i \in 1..Len(htmlFiles) :
                 /\ htmlFiles[i].id = selectedFileId
                 /\ \A j \in 1..Len(htmlFiles) : htmlFiles[j].id = selectedFileId => i <= j]

handlePlaceholderChange(placeholder, value) ==
    /\ SettingsTabShown
    /\ placeholder \in Range(selectedFileData.placeholders)
    /\ UpdateProjectState(files,
                          [i \in 1..Len(htmlFiles) |->
                              IF htmlFiles[i].id = selectedFileId
                              THEN [htmlFiles[i] EXCEPT !.placeholderValues =
                                       ObjSet(htmlFiles[i].placeholderValues, placeholder, value)]
                              ELSE htmlFiles[i]],
                          globalScripts)
    /\ UNCHANGED <<disk, uiVars, asyncVars, isLoading, apiKey, zip>>
    /\ syncTempApiKey
    /\ previewEffect

\* the options of the select: no page, or another html file
handleLinkPlaceholderChange(placeholder, targetFileId) ==
    /\ SettingsTabShown
    /\ placeholder \in Range(ObjKeys(selectedFileData.linkPlaceholders))
    /\ \/ targetFileId = NoId
       \/ /\ targetFileId # selectedFileId
          /\ \E i \in 1..Len(htmlFiles) : htmlFiles[i].id = targetFileId
    /\ UpdateProjectState(files,
                          [i \in 1..Len(htmlFiles) |->
                              IF htmlFiles[i].id = selectedFileId
                              THEN [htmlFiles[i] EXCEPT !.linkPlaceholders =
                                       ObjSet(htmlFiles[i].linkPlaceholders, placeholder,
                                              targetFileId)]
                              ELSE htmlFiles[i]],
                          globalScripts)
    /\ UNCHANGED <<disk, uiVars, asyncVars, isLoading, apiKey, zip>>
    /\ syncTempApiKey
    /\ previewEffect

toggleGlobalSettings ==
    /\ SettingsTabShown
    /\ isGlobalSettingsExpanded' = ~isGlobalSettingsExpanded
    /\ UNCHANGED <<disk, projectVars, selectedFileId, notification, isSettingsModalOpen,
                   sidebarView, currentAnalysisReport, asyncVars, isLoading, apiKey, zip>>
    /\ syncTempApiKey
    /\ previewEffect

\* the textarea of the global panel
setGlobalScripts(value) ==
    /\ GlobalPanelShown
    /\ UpdateProjectState(files, htmlFiles, value)
    /\ UNCHANGED <<disk, uiVars, asyncVars, isLoading, apiKey, zip>>
    /\ syncTempApiKey
    /\ previewEffect

\* resetState (the "start over" button)
resetState ==
    /\ GlobalPanelShown
    /\ clearProjectState
    /\ selectedFileId' = NoId
    /\ notification' = Null
    /\ sidebarView' = "settings"
    /\ currentAnalysisReport' = NoReport
    /\ UNCHANGED <<disk, isSettingsModalOpen, isGlobalSettingsExpanded, asyncVars,
                   isLoading, apiKey, zip>>
    /\ syncTempApiKey
    /\ previewUrls' = <<>>

\* the "Выйти" button of the header: resetState(), setIsAuthenticated(false).
\* The component stays mounted behind the landing and PIN pages, so its
\* state is the state the user finds after entering the PIN again.
handleLogout ==
    /\ clearProjectState
    /\ selectedFileId' = NoId
    /\ notification' = Null
    /\ sidebarView' = "settings"
    /\ currentAnalysisReport' = NoReport
    /\ UNCHANGED <<disk, isSettingsModalOpen, isGlobalSettingsExpanded, asyncVars,
                   isLoading, apiKey, zip>>
    /\ syncTempApiKey
    /\ previewUrls' = <<>>

----------------------------------------------------------------------------
(* handleOptimizeNames                                                     *)

NonMainIdx(hfs) == {i \in 1..Len(hfs) : ~hfs[i].isMain}

\* the array Promise.all resolves to: main files as they were, the others
\* renamed to `${newName}.html`
OptimizedFiles(hfs, names) ==
    [i \in 1..Len(hfs) |->
        IF hfs[i].isMain THEN hfs[i]
        ELSE [hfs[i] EXCEPT !.newFileName = names[i] \o ".html"]]

\* after `await Promise.all(promises)`: the try block and the finally
OptimizeSucceed(hfs, names) ==
    /\ UpdateProjectState(files, OptimizedFiles(hfs, names), globalScripts)
    /\ notification' = Notice(MsgOptimized, "success")
    /\ isLoading' = [isLoading EXCEPT !.optimizing = FALSE]
    /\ optimizeOp' = Null

handleOptimizeNames ==
    /\ GlobalPanelShown
    /\ ~OptimizeButtonDisabled
    /\ IF apiKey = ""
       THEN /\ notification' = Notice(MsgNeedKey, "error")
            /\ isSettingsModalOpen' = TRUE
            /\ UNCHANGED <<projectVars, isLoading, optimizeOp>>
       ELSE IF NonMainIdx(htmlFiles) = {}
       THEN /\ OptimizeSucceed(htmlFiles, [i \in 1..Len(htmlFiles) |-> ""])
            /\ UNCHANGED isSettingsModalOpen
       ELSE /\ notification' = Null
            /\ isLoading' = [isLoading EXCEPT !.optimizing = TRUE]
            /\ optimizeOp' = Some([htmlFiles |-> htmlFiles,
                                   names |-> [i \in 1..Len(htmlFiles) |-> ""]])
            /\ UNCHANGED <<projectVars, isSettingsModalOpen>>
    /\ UNCHANGED <<disk, selectedFileId, sidebarView, currentAnalysisReport,
                   isGlobalSettingsExpanded, uploads, analyzeOps, fixOp, apiKey, zip>>
    /\ syncTempApiKey
    /\ previewEffect

\* answers stored in the order they arrive, the first in the first free
\* place (a variant of optimizeResolve that NamesFollowContent must reject)
optimizeResolveInArrivalOrder(i, responseText) ==
    /\ optimizeOp # Null
    /\ i \in NonMainIdx(optimizeOp[1].htmlFiles)
    /\ optimizeOp[1].names[i] = ""
    /\ LET op == optimizeOp[1]
           free == CHOOSE j \in NonMainIdx(op.htmlFiles) :
                      /\ op.names[j] = ""
                      /\ \A n \in NonMainIdx(op.htmlFiles) : n < j => op.names[n] # ""
           names == [op.names EXCEPT ![free] = optimizeFileName(responseText)]
       IN  IF \A j \in NonMainIdx(op.htmlFiles) : names[j] # ""
           THEN OptimizeSucceed(op.htmlFiles, names)
           ELSE /\ optimizeOp' = Some([op EXCEPT !.names = names])
                /\ UNCHANGED <<projectVars, notification, isLoading>>
    /\ UNCHANGED <<disk, selectedFileId, isSettingsModalOpen, sidebarView,
                   currentAnalysisReport, isGlobalSettingsExpanded, uploads, analyzeOps,
                   fixOp, apiKey, zip>>
    /\ syncTempApiKey
    /\ previewEffect

\* the request for the i-th file of the call in flight is answered
optimizeResolve(i, responseText) ==
    /\ optimizeOp # Null
    /\ i \in NonMainIdx(optimizeOp[1].htmlFiles)
    /\ optimizeOp[1].names[i] = ""
    /\ LET op == optimizeOp[1]
           names == [op.names EXCEPT ![i] = optimizeFileName(responseText)]
       IN  IF \A j \in NonMainIdx(op.htmlFiles) : names[j] # ""
           THEN OptimizeSucceed(op.htmlFiles, names)
           ELSE /\ optimizeOp' = Some([op EXCEPT !.names = names])
                /\ UNCHANGED <<projectVars, notification, isLoading>>
    /\ UNCHANGED <<disk, selectedFileId, isSettingsModalOpen, sidebarView,
                   currentAnalysisReport, isGlobalSettingsExpanded, uploads, analyzeOps,
                   fixOp, apiKey, zip>>
    /\ syncTempApiKey
    /\ previewEffect

\* a catch block that keeps the names answered so far (a variant of
\* optimizeReject that OptimizeFailureChangesNothing must reject)
optimizeRejectKeepingAnswers(i, error) ==
    /\ optimizeOp # Null
    /\ i \in NonMainIdx(optimizeOp[1].htmlFiles)
    /\ optimizeOp[1].names[i] = ""
    /\ LET op == optimizeOp[1]
       IN  UpdateProjectState(files,
                              [j \in 1..Len(op.htmlFiles) |->
                                  IF op.htmlFiles[j].isMain \/ op.names[j] = ""
                                  THEN op.htmlFiles[j]
                                  ELSE [op.htmlFiles[j] EXCEPT
                                           !.newFileName = op.names[j] \o ".html"]],
                              globalScripts)
    /\ IF error = ErrInvalidKey
       THEN /\ notification' = Notice(MsgInvalidKey, "error")
            /\ isSettingsModalOpen' = TRUE
       ELSE /\ notification' = Notice(error, "error")
            /\ UNCHANGED isSettingsModalOpen
    /\ isLoading' = [isLoading EXCEPT !.optimizing = FALSE]
    /\ optimizeOp' = Null
    /\ UNCHANGED <<disk, selectedFileId, sidebarView, currentAnalysisReport,
                   isGlobalSettingsExpanded, uploads, analyzeOps, fixOp, apiKey, zip>>
    /\ syncTempApiKey
    /\ previewEffect

\* the request for the i-th file throws: Promise.all rejects, the catch
\* block and the finally run, later answers are dropped
optimizeReject(i, error) ==
    /\ optimizeOp # Null
    /\ i \in NonMainIdx(optimizeOp[1].htmlFiles)
    /\ optimizeOp[1].names[i] = ""
    /\ IF error = ErrInvalidKey
       THEN /\ notification' = Notice(MsgInvalidKey, "error")
            /\ isSettingsModalOpen' = TRUE
       ELSE /\ notification' = Notice(error, "error")
            /\ UNCHANGED isSettingsModalOpen
    /\ isLoading' = [isLoading EXCEPT !.optimizing = FALSE]
    /\ optimizeOp' = Null
    /\ UNCHANGED <<disk, projectVars, selectedFileId, sidebarView, currentAnalysisReport,
                   isGlobalSettingsExpanded, uploads, analyzeOps, fixOp, apiKey, zip>>
    /\ syncTempApiKey
    /\ previewEffect

----------------------------------------------------------------------------
(* handlePackageZip                                                        *)

\* everything up to `await zip.generateAsync`
handlePackageZip ==
    /\ GlobalPanelShown
    /\ ~PackageButtonDisabled
    /\ isLoading' = [isLoading EXCEPT !.zipping = TRUE]
    /\ zip' = Some([calls |-> ZipCalls(files, htmlFiles, globalScripts),
                    entries |-> ZipEntries(ZipCalls(files, htmlFiles, globalScripts)),
                    files |-> files, htmlFiles |-> htmlFiles,
                    globalScripts |-> globalScripts])
    /\ UNCHANGED <<disk, projectVars, uiVars, asyncVars, apiKey>>
    /\ syncTempApiKey
    /\ previewEffect

\* generateAsync settles: saveAs(content, 'deploy.zip') hands the archive to
\* the browser, or the error notice is shown
zipGenerated(ok) ==
    /\ zip # Null
    /\ IF ok THEN UNCHANGED notification
       ELSE notification' = Notice(MsgZipError, "error")
    /\ zip' = Null
    /\ isLoading' = [isLoading EXCEPT !.zipping = FALSE]
    /\ UNCHANGED <<disk, projectVars, selectedFileId, isSettingsModalOpen, sidebarView,
                   currentAnalysisReport, isGlobalSettingsExpanded, asyncVars, apiKey>>
    /\ syncTempApiKey
    /\ previewEffect

----------------------------------------------------------------------------
(* handleAnalyzeContent and handleApplyFixes                               *)

ReportNeedKey == "## Error: an API key is needed (Oshibka)"
ReportFailed(message) == "## Analysis error (Oshibka analiza): " \o message
ErrAnalyzeApi == "Could not analyze the content because of an API error."
MsgFixed == "Changes applied! Run the audit again to see the new report."

\* currentAnalysisReport.includes("Ошибка")
ReportHasError(report) ==
    report \in {ReportNeedKey, ReportFailed(MsgInvalidKey), ReportFailed(ErrAnalyzeApi)}

\* the loading flag set before the test of the key (a variant of
\* handleAnalyzeContent that NoKeyNoRequest must reject)
handleAnalyzeContentLoadingFirst(fileId) ==
    /\ CardShown(fileId) /\ isLoading.analyzingFileId # fileId
    /\ selectedFileId' = fileId
    /\ sidebarView' = "analysis"
    /\ isLoading' = [isLoading EXCEPT !.analyzingFileId = fileId]
    /\ IF apiKey = ""
       THEN /\ notification' = Notice(MsgNeedKey, "error")
            /\ isSettingsModalOpen' = TRUE
            /\ currentAnalysisReport' = ReportNeedKey
            /\ UNCHANGED analyzeOps
       ELSE /\ notification' = Null
            /\ currentAnalysisReport' = NoReport
            /\ analyzeOps' = Append(analyzeOps, fileId)
            /\ UNCHANGED isSettingsModalOpen
    /\ UNCHANGED <<disk, projectVars, isGlobalSettingsExpanded, uploads, optimizeOp, fixOp,
                   apiKey, zip>>
    /\ syncTempApiKey
    /\ previewEffect

\* handleAnalyzeContent(fileId), from a card, from the analysis tab or from
\* the "audit again" button; the two buttons are disabled while that file is
\* being analyzed
handleAnalyzeContent(fileId) ==
    /\ \/ CardShown(fileId) /\ isLoading.analyzingFileId # fileId
       \/ /\ MainGridShown /\ HasSelectedFileData /\ fileId = selectedFileId
          /\ \/ sidebarView = "analysis" /\ isLoading.analyzingFileId # fileId
             \/ currentAnalysisReport = NoReport
    /\ selectedFileId' = fileId
    /\ sidebarView' = "analysis"
    /\ IF apiKey = ""
       THEN /\ notification' = Notice(MsgNeedKey, "error")
            /\ isSettingsModalOpen' = TRUE
            /\ currentAnalysisReport' = ReportNeedKey
            /\ UNCHANGED <<isLoading, analyzeOps>>
       ELSE /\ notification' = Null
            /\ currentAnalysisReport' = NoReport
            /\ UNCHANGED isSettingsModalOpen
            /\ IF \E i \in 1..Len(htmlFiles) : htmlFiles[i].id = fileId
               THEN /\ isLoading' = [isLoading EXCEPT !.analyzingFileId = fileId]
                    /\ analyzeOps' = Append(analyzeOps, fileId)
               ELSE UNCHANGED <<isLoading, analyzeOps>>
    /\ UNCHANGED <<disk, projectVars, isGlobalSettingsExpanded, uploads, optimizeOp, fixOp,
                   apiKey, zip>>
    /\ syncTempApiKey
    /\ previewEffect

\* analyzeHtmlContent settles for the k-th call in flight: with a report,
\* or with an error ("" for none)
analyzeSettled(k, report, error) ==
    /\ k \in 1..Len(analyzeOps)
    /\ IF error = ""
       THEN /\ currentAnalysisReport' = report
            /\ UNCHANGED isSettingsModalOpen
       ELSE IF error = ErrInvalidKey
       THEN /\ currentAnalysisReport' = ReportFailed(MsgInvalidKey)
            /\ isSettingsModalOpen' = TRUE
       ELSE /\ currentAnalysisReport' = ReportFailed(error)
            /\ UNCHANGED isSettingsModalOpen
    /\ isLoading' = [isLoading EXCEPT !.analyzingFileId = NoId]
    /\ analyzeOps' = [n \in 1..(Len(analyzeOps) - 1) |->
                         IF n < k THEN analyzeOps[n] ELSE analyzeOps[n + 1]]
    /\ UNCHANGED <<disk, projectVars, selectedFileId, notification, sidebarView,
                   isGlobalSettingsExpanded, uploads, optimizeOp, fixOp, apiKey, zip>>
    /\ syncTempApiKey
    /\ previewEffect

\* the two tabs of the sidebar; the analysis tab starts an analysis when
\* there is no report (handleAnalyzeContent above)
showSettingsTab ==
    /\ MainGridShown /\ HasSelectedFileData
    /\ sidebarView' = "settings"
    /\ UNCHANGED <<disk, projectVars, selectedFileId, notification, isSettingsModalOpen,
                   currentAnalysisReport, isGlobalSettingsExpanded, asyncVars, isLoading,
                   apiKey, zip>>
    /\ syncTempApiKey
    /\ previewEffect

showAnalysisTab ==
    /\ MainGridShown /\ HasSelectedFileData
    /\ currentAnalysisReport # NoReport
    /\ sidebarView' = "analysis"
    /\ UNCHANGED <<disk, projectVars, selectedFileId, notification, isSettingsModalOpen,
                   currentAnalysisReport, isGlobalSettingsExpanded, asyncVars, isLoading,
                   apiKey, zip>>
    /\ syncTempApiKey
    /\ previewEffect

\* disabled={isLoading.applyingFixes || !currentAnalysisReport ||
\*           currentAnalysisReport.includes("Ошибка")}
FixButtonDisabled ==
    \/ isLoading.applyingFixes
    \/ currentAnalysisReport = NoReport
    \/ ReportHasError(currentAnalysisReport)

handleApplyFixes ==
    /\ MainGridShown /\ HasSelectedFileData /\ sidebarView = "analysis"
    /\ ~FixButtonDisabled
    /\ isLoading' = [isLoading EXCEPT !.applyingFixes = TRUE]
    /\ notification' = Null
    /\ fixOp' = Some([selectedFileId |-> selectedFileId, files |-> files,
                      htmlFiles |-> htmlFiles, apiKey |-> apiKey])
    /\ UNCHANGED <<disk, projectVars, selectedFileId, isSettingsModalOpen, sidebarView,
                   currentAnalysisReport, isGlobalSettingsExpanded, uploads, optimizeOp,
                   analyzeOps, apiKey, zip>>
    /\ syncTempApiKey
    /\ previewEffect

\* applyAnalysisFixes settles: with the fixed HTML, or with an error
fixSettled(fixedHtml, error) ==
    /\ fixOp # Null
    /\ LET op == fixOp[1]
       IN  IF op.apiKey # "" /\ error = ""
           THEN /\ UpdateProjectState(
                       [i \in 1..Len(op.files) |->
                           IF op.files[i].id = op.selectedFileId
                           THEN [op.files[i] EXCEPT !.content = TextContent(fixedHtml)]
                           ELSE op.files[i]],
                       [i \in 1..Len(op.htmlFiles) |->
                           IF op.htmlFiles[i].id = op.selectedFileId
                           THEN [op.htmlFiles[i] EXCEPT !.content = fixedHtml]
                           ELSE op.htmlFiles[i]],
                       globalScripts)
                /\ currentAnalysisReport' = NoReport
                /\ notification' = Notice(MsgFixed, "success")
           ELSE /\ notification' = Notice(IF op.apiKey = "" THEN ErrNoKey ELSE error, "error")
                /\ UNCHANGED <<projectVars, currentAnalysisReport>>
    /\ isLoading' = [isLoading EXCEPT !.applyingFixes = FALSE]
    /\ fixOp' = Null
    /\ UNCHANGED <<disk, selectedFileId, isSettingsModalOpen, sidebarView,
                   isGlobalSettingsExpanded, uploads, optimizeOp, analyzeOps, apiKey, zip>>
    /\ syncTempApiKey
    /\ previewEffect

\* the AI answers the applyAnalysisFixes request of the call in flight
fixReplied(reply) ==
    /\ fixOp # Null
    /\ fixSettled(applyAnalysisFixes(fixOp[1].apiKey, reply).fixedHtml,
                  applyAnalysisFixes(fixOp[1].apiKey, reply).error)

----------------------------------------------------------------------------
(* The API key modal                                                       *)

MsgKeySaved == "API key saved."

openSettings ==
    /\ ~isSettingsModalOpen
    /\ isSettingsModalOpen' = TRUE
    /\ UNCHANGED <<disk, projectVars, selectedFileId, notification, sidebarView,
                   currentAnalysisReport, isGlobalSettingsExpanded, asyncVars, isLoading,
                   apiKey, zip>>
    /\ syncTempApiKey
    /\ previewEffect

\* a cancel button that saves what was typed (a variant of closeSettings
\* that KeyChangesOnlyWhenSaved must reject)
closeSettingsSaving ==
    /\ isSettingsModalOpen
    /\ isSettingsModalOpen' = FALSE
    /\ apiKey' = tempApiKey
    /\ UNCHANGED <<disk, projectVars, selectedFileId, notification, sidebarView,
                   currentAnalysisReport, isGlobalSettingsExpanded, asyncVars, isLoading,
                   zip>>
    /\ syncTempApiKey
    /\ previewEffect

\* the cancel button, the close button and the backdrop of the dialog
closeSettings ==
    /\ isSettingsModalOpen
    /\ isSettingsModalOpen' = FALSE
    /\ UNCHANGED <<disk, projectVars, selectedFileId, notification, sidebarView,
                   currentAnalysisReport, isGlobalSettingsExpanded, asyncVars, isLoading,
                   apiKey, zip>>
    /\ syncTempApiKey
    /\ previewEffect

\* a key is typed into the input of the dialog
setTempApiKey(value) ==
    /\ isSettingsModalOpen
    /\ tempApiKey' = value
    /\ UNCHANGED <<disk, projectVars, uiVars, asyncVars, isLoading, apiKey, previewUrls,
                   zip>>

\* the key in the input of the dialog is saved
handleSaveApiKey ==
    /\ isSettingsModalOpen
    /\ apiKey' = tempApiKey
    /\ isSettingsModalOpen' = FALSE
    /\ notification' = Notice(MsgKeySaved, "success")
    /\ UNCHANGED <<disk, projectVars, selectedFileId, sidebarView, currentAnalysisReport,
                   isGlobalSettingsExpanded, asyncVars, isLoading, zip>>
    /\ syncTempApiKey
    /\ previewEffect

----------------------------------------------------------------------------
(* The page is loaded again                                                *)

\* the component is constructed anew and the effect of useProjectState
\* rehydrates the stored project; what was awaited is gone with the old page
pageLoaded ==
    /\ files' = IF stored = Null THEN <<>> ELSE Rehydrated(stored[1]).files
    /\ htmlFiles' = IF stored = Null THEN <<>> ELSE Rehydrated(stored[1]).htmlFiles
    /\ globalScripts' = IF stored = Null THEN <<>> ELSE Rehydrated(stored[1]).globalScripts
    /\ selectedFileId' = NoId
    /\ isLoading' = [optimizing |-> FALSE, zipping |-> FALSE, analyzingFileId |-> NoId,
                     applyingFixes |-> FALSE]
    /\ notification' = Null
    /\ isSettingsModalOpen' = FALSE
    /\ sidebarView' = "settings"
    /\ currentAnalysisReport' = NoReport
    /\ isGlobalSettingsExpanded' = FALSE
    /\ uploads' = <<>>
    /\ optimizeOp' = Null
    /\ analyzeOps' = <<>>
    /\ fixOp' = Null
    /\ zip' = Null
    /\ UNCHANGED <<disk, stored, apiKey>>
    /\ syncTempApiKey
    /\ previewUrls' = previewsAfterChange(<<>>)

----------------------------------------------------------------------------
(* The application from an empty project: the user's files, the inputs     *)

HtmlOnDisk(name, folder, data) ==
    [name |-> name, folder |-> folder, lastModified |-> 1, type |-> "text/html", data |-> data]

\* what the user selects: the files (by position on the disk) and whether
\* it is a folder pick
FolderPick(idx) == [idx |-> idx, withRelativePath |-> TRUE]
FilePick(idx) == [idx |-> idx, withRelativePath |-> FALSE]

BatchOf(pick) == [i \in 1..Len(pick.idx) |-> FileObject(disk[pick.idx[i]], pick.withRelativePath)]

\* Bounds.  An answer that arrives after the user deleted files or started
\* over writes the files of its snapshot back, so the lists of files can grow
\* without limit: uploads stop at MaxFiles entries.  At most MaxInFlight
\* uploads, AI requests and archives are awaited at a time.
MaxFiles == 3
MaxInFlight == 1

InFlight == Len(uploads) + Len(optimizeOp) + Len(analyzeOps) + Len(fixOp) + Len(zip)

IdsShown == {htmlFiles[i].id : i \in 1..Len(htmlFiles)}

\* the state after construction and rehydration with no stored project;
\* storedKey is localStorage['gemini-api-key'], "" if the user never saved one
InitProject(storedKey) ==
    /\ files = <<>>
    /\ htmlFiles = <<>>
    /\ globalScripts = <<>>
    /\ stored = Null
    /\ selectedFileId = NoId
    /\ isLoading = [optimizing |-> FALSE, zipping |-> FALSE, analyzingFileId |-> NoId,
                    applyingFixes |-> FALSE]
    /\ notification = Null
    /\ isSettingsModalOpen = FALSE
    /\ apiKey = storedKey
    /\ tempApiKey = storedKey
    /\ previewUrls = <<>>
    /\ sidebarView = "settings"
    /\ currentAnalysisReport = NoReport
    /\ isGlobalSettingsExpanded = FALSE
    /\ uploads = <<>>
    /\ optimizeOp = Null
    /\ analyzeOps = <<>>
    /\ fixOp = Null
    /\ zip = Null

Upload(picks) ==
    /\ InFlight < MaxInFlight
    /\ \E pick \in picks :
          /\ Len(files) + Len(ReadIdx(BatchOf(pick), files)) <= MaxFiles
          /\ Len(htmlFiles) + Len(ReadIdx(BatchOf(pick), files)) <= MaxFiles
          /\ processFiles(BatchOf(pick))

\* every reader fires onload, or every reader fires onerror
UploadLoaded ==
    \E k \in 1..Len(uploads) : \E failed \in {{}, Range(uploads[k].readIdx)} :
        processFilesLoaded(k, failed)

CardActions ==
    \E id \in IdsShown :
        \/ setMainPage(id)
        \/ handleDeleteFile(id)
        \/ handleSelectFile(id)

Rename(names) == \E id \in IdsShown : \E newName \in names : handleUpdateFileName(id, newName)

Optimize == InFlight < MaxInFlight /\ handleOptimizeNames

OptimizeSettles(replies, errors) ==
    /\ optimizeOp # Null
    /\ \E i \in 1..Len(optimizeOp[1].htmlFiles) :
        \/ \E responseText \in replies : optimizeResolve(i, responseText)
        \/ \E error \in errors : optimizeReject(i, error)

PackageZip == InFlight < MaxInFlight /\ handlePackageZip

ZipSettles == \E ok \in BOOLEAN : zipGenerated(ok)

----------------------------------------------------------------------------
(* Spec: the pages of a project from upload to renaming.  The folder site/ *)
(* holds two pages; the folder old/ holds an older copy of one of them     *)
(* that kept its modification time.                                        *)

DiskOfSpec ==
    << HtmlOnDisk("index.html", <<"site/">>, <<"<head>", "</head>", "home">>),
       HtmlOnDisk("about.html", <<"site/">>, <<"about">>),
       HtmlOnDisk("about.html", <<"old/">>, <<"about", "2019">>) >>

\* the folder site/ is picked; the two copies of about.html are dropped together
PicksOfSpec == {FolderPick(<<1, 2>>), FilePick(<<2, 3>>)}

StoredKeys == {"", "key"}
TypedNames == {"x.html"}
AiReplies == {<<" ", "O-Nas", ".HTML", "\n">>}
OptimizeErrors == {ErrOptimizeApi}

Init ==
    /\ disk = DiskOfSpec
    /\ \E storedKey \in StoredKeys : InitProject(storedKey)

Next ==
    \/ Upload(PicksOfSpec)
    \/ UploadLoaded
    \/ CardActions
    \/ Rename(TypedNames)
    \/ toggleGlobalSettings
    \/ resetState
    \/ Optimize
    \/ OptimizeSettles(AiReplies, OptimizeErrors)

Spec == Init /\ [][Next]_vars

----------------------------------------------------------------------------
(* SpecOptimize: the folder site/ is uploaded and the AI names its pages   *)
(* while the user goes on choosing the main page                           *)

PicksOfOptimize == {FolderPick(<<1, 2>>)}

\* a reply that becomes a name, and one that is no kebab-case name
RepliesOfOptimize == {<<" ", "O-Nas", ".HTML", "\n">>, <<"o", " ", "nas">>}
ErrorsOfOptimize == {ErrInvalidKey, ErrOptimizeApi}

SetMain == \E id \in IdsShown : setMainPage(id)

SelectFile == \E id \in IdsShown : handleSelectFile(id)

NextOptimize ==
    \/ Upload(PicksOfOptimize)
    \/ UploadLoaded
    \/ SetMain
    \/ SelectFile
    \/ toggleGlobalSettings
    \/ Optimize
    \/ OptimizeSettles(RepliesOfOptimize, ErrorsOfOptimize)

SpecOptimize == Init /\ [][NextOptimize]_vars

----------------------------------------------------------------------------
(* SpecPackage: choosing the main page and packaging                       *)

NextPackage ==
    \/ Upload(PicksOfSpec)
    \/ UploadLoaded
    \/ CardActions
    \/ toggleGlobalSettings
    \/ resetState
    \/ PackageZip
    \/ ZipSettles

SpecPackage == Init /\ [][NextPackage]_vars

----------------------------------------------------------------------------
(* SpecText: one page whose text is any sequence of up to MaxPieces pieces *)
(* is uploaded and its placeholders are filled in                          *)

PiecesOfText ==
    { <<"[[", "a", "]]">>,
      <<"{{", " ", "a", "\n", "}}">>,
      <<"[[", "a", "}}">>,
      <<"[[", "b", " ", "c", "]]">>,
      <<"{{", "link_about", "}}">>,
      <<"[[", " ", "URL_c", "]]">>,
      <<"text">> }

MaxPieces == 3

ContentsOfText == {Concat(pieces) : pieces \in SeqsUpTo(PiecesOfText, MaxPieces)}

PicksOfText == {FilePick(<<1>>)}

\* what the user types into the field of a placeholder
ValuesOfText == {<<>>, <<"v">>, <<"$&">>}

InitText ==
    /\ disk \in {<<HtmlOnDisk("page.html", <<>>, content)>> : content \in ContentsOfText}
    /\ InitProject("")

PlaceholderChange(values) ==
    /\ HasSelectedFileData
    /\ \E i \in 1..Len(selectedFileData.placeholders) : \E value \in values :
          handlePlaceholderChange(selectedFileData.placeholders[i], value)

NextText ==
    \/ Upload(PicksOfText)
    \/ UploadLoaded
    \/ SelectFile
    \/ PlaceholderChange(ValuesOfText)

SpecText == InitText /\ [][NextText]_vars

----------------------------------------------------------------------------
(* SpecExport: a folder with two pages and a text file is uploaded,        *)
(* configured and packaged                                                 *)

DiskOfExport ==
    << HtmlOnDisk("index.html", <<"site/">>,
                  <<"<head>", "</head>",
                    "href=\"", "{{", "link_about", "}}", "\"",
                    "href=\"", "sub/", "o%20nas.html", "\"",
                    "href=\"", "https://", "example.com/", "index.html", "\"",
                    "src=\"", "README.md", "\"">>),
       HtmlOnDisk("o nas.html", <<"site/", "sub/">>,
                  <<"<HEAD>", "</HEAD>", "href='", "../", "index.html", "'">>),
       [name |-> "README.md", folder |-> <<"site/">>, lastModified |-> 1,
        type |-> "text/markdown", data |-> <<"my notes">>] >>

PicksOfExport == {FolderPick(<<1, 2, 3>>)}

\* what the user types into the global scripts field
ScriptsOfExport == {<<" ">>, <<" ", "<script>", "\n">>}

InitExport ==
    /\ disk = DiskOfExport
    /\ InitProject("")

LinkChange ==
    /\ HasSelectedFileData
    /\ \E i \in 1..Len(selectedFileData.linkPlaceholders) :
       \E targetFileId \in IdsShown \cup {NoId} :
          handleLinkPlaceholderChange(selectedFileData.linkPlaceholders[i][1], targetFileId)

NextExport ==
    \/ Upload(PicksOfExport)
    \/ UploadLoaded
    \/ SetMain
    \/ SelectFile
    \/ Rename(TypedNames)
    \/ LinkChange
    \/ toggleGlobalSettings
    \/ \E value \in ScriptsOfExport : setGlobalScripts(value)
    \/ PackageZip
    \/ ZipSettles

SpecExport == InitExport /\ [][NextExport]_vars

----------------------------------------------------------------------------
(* SpecAi: the folder site/ is uploaded, its pages are audited and fixed   *)
(* by the AI and renamed by it, with and without a stored API key          *)

ReportOfAi == "## Report: the title tag is missing"
ErrorsOfAnalyze == {ErrInvalidKey, ErrAnalyzeApi}

\* a reply in a code fence, one without the doctype, and the two failures of
\* the request
RepliesOfFix ==
    { [text |-> <<"<fence>html", "\n", "<!DOCTYPE html>", "<title>", "\n", "<fence>">>, error |-> ""],
      [text |-> <<" ", "<title>", "fixed", "\n">>, error |-> ""],
      [text |-> <<>>, error |-> RawInvalidKey],
      [text |-> <<>>, error |-> RawNetwork] }

Analyze == InFlight < MaxInFlight /\ \E id \in IdsShown : handleAnalyzeContent(id)

AnalyzeSettles ==
    \E k \in 1..Len(analyzeOps) :
        \/ analyzeSettled(k, ReportOfAi, "")
        \/ \E error \in ErrorsOfAnalyze : analyzeSettled(k, NoReport, error)

ApplyFixes == InFlight < MaxInFlight /\ handleApplyFixes

FixSettles(replies) == \E reply \in replies : fixReplied(reply)

NextAi ==
    \/ Upload(PicksOfOptimize)
    \/ UploadLoaded
    \/ SelectFile
    \/ Analyze
    \/ AnalyzeSettles
    \/ showSettingsTab
    \/ showAnalysisTab
    \/ ApplyFixes
    \/ FixSettles(RepliesOfFix)
    \/ toggleGlobalSettings
    \/ Optimize
    \/ OptimizeSettles(AiReplies, OptimizeErrors)

SpecAi == Init /\ [][NextAi]_vars

----------------------------------------------------------------------------
(* SpecPersist: a folder with a page, a style sheet and images is uploaded *)
(* and edited, and the page is loaded again from local storage             *)

OnDisk(name, type, data) ==
    [name |-> name, folder |-> <<"site/">>, lastModified |-> 1, type |-> type, data |-> data]

\* the bytes of the photo: longer than the project's other files together
PhotoBytes == [i \in 1..48 |-> (37 * i) % 256]

DiskOfPersist ==
    << HtmlOnDisk("page.html", <<"site/">>,
                  <<"<head>", "[[", "a", "]]", "{{", "link_about", "}}">>),
       OnDisk("style.css", "text/css", <<"body{}">>),
       OnDisk("a.png", "image/png", <<137>>),
       OnDisk("b.png", "image/png", <<137, 80>>),
       OnDisk("c.gif", "image/gif", <<71, 73, 70>>),
       OnDisk("photo.jpg", "image/jpeg", PhotoBytes) >>

PicksOfPersist ==
    {FolderPick(<<1, 2, 3>>), FolderPick(<<3, 4, 5>>), FolderPick(<<1, 6>>)}

ScriptsOfPersist == {<<"<script>">>}
ValuesOfPersist == {<<"v">>}

InitPersist ==
    /\ disk = DiskOfPersist
    /\ InitProject("")

NextPersist ==
    \/ Upload(PicksOfPersist)
    \/ UploadLoaded
    \/ CardActions
    \/ PlaceholderChange(ValuesOfPersist)
    \/ toggleGlobalSettings
    \/ \E value \in ScriptsOfPersist : setGlobalScripts(value)
    \/ resetState
    \/ pageLoaded

SpecPersist == InitPersist /\ [][NextPersist]_vars

----------------------------------------------------------------------------
(* SpecKey: the API key is typed, saved and cancelled in the dialog while  *)
(* a page is audited and fixed, the project is reset and the page reloaded *)

TypedKeys == {"", "key2"}

NextKey ==
    \/ Upload(PicksOfOptimize)
    \/ UploadLoaded
    \/ openSettings
    \/ closeSettings
    \/ \E value \in TypedKeys : setTempApiKey(value)
    \/ handleSaveApiKey
    \/ Analyze
    \/ AnalyzeSettles
    \/ ApplyFixes
    \/ FixSettles(RepliesOfFix)
    \/ resetState
    \/ handleLogout
    \/ pageLoaded

SpecKey == Init /\ [][NextKey]_vars

----------------------------------------------------------------------------
(* SpecOrder: three pages are uploaded and the AI names them, each request *)
(* answered at its own time with the name the AI finds for its content     *)

DiskOfOrder ==
    << HtmlOnDisk("index.html", <<"site/">>, <<"home">>),
       HtmlOnDisk("about.html", <<"site/">>, <<"about">>),
       HtmlOnDisk("contacts.html", <<"site/">>, <<"contacts">>) >>

PicksOfOrder == {FolderPick(<<1, 2, 3>>), FolderPick(<<2, 3>>)}

\* response.text for the prompt built from htmlContent: the AI of this
\* specification answers the same content with the same text
SuggestionFor(htmlContent) ==
    IF "about" \in Range(htmlContent) THEN <<" ", "O-Nas", ".HTML", "\n">>
    ELSE IF "contacts" \in Range(htmlContent) THEN <<"kontakty">>
    ELSE <<"o", " ", "nas">>

\* one of the requests in flight is answered, in any order
OptimizeAnswers ==
    /\ optimizeOp # Null
    /\ \E i \in 1..Len(optimizeOp[1].htmlFiles) :
          optimizeResolve(i, SuggestionFor(optimizeOp[1].htmlFiles[i].content))

InitOrder ==
    /\ disk = DiskOfOrder
    /\ InitProject("key")

NextOrder ==
    \/ Upload(PicksOfOrder)
    \/ UploadLoaded
    \/ SetMain
    \/ Optimize
    \/ OptimizeAnswers

SpecOrder == InitOrder /\ [][NextOrder]_vars

----------------------------------------------------------------------------
(* Properties                                                              *)

MainIdx == {i \in 1..Len(htmlFiles) : htmlFiles[i].isMain}

\* C1: in every reachable state at most one HTML file is flagged as the main
\* page
AtMostOneMainPage == Cardinality(MainIdx) <= 1

\* C2: in every reachable state every HTML file flagged as the main page has
\* the new file name index.html
MainPageIsIndexHtml == \A i \in MainIdx : htmlFiles[i].newFileName = "index.html"

TokenAt(c, p, key) ==
    PlaceholderMatchAt(c, p).ok /\ Trim(PlaceholderMatchAt(c, p).name) = key

\* C4: whatever the values, the text substituteAllPlaceholders returns for a
\* file holds no token of any of the file's text placeholders: every token
\* the scan recognised is replaced by the placeholder's value
NoTextTokenLeft ==
    \A i \in 1..Len(htmlFiles) :
        LET out == substituteAllPlaceholders(htmlFiles[i], htmlFiles)
        IN  \A k \in 1..Len(htmlFiles[i].placeholders) : \A p \in 1..Len(out) :
                ~TokenAt(out, p, htmlFiles[i].placeholders[k])

\* the archive being generated: the text passed to zip.file for the i-th
\* page, and the page after substituteAllPlaceholders
ArchivedPage(i) == zip[1].calls[i][2].data
SubstitutedPage(i) == substituteAllPlaceholders(zip[1].htmlFiles[i], zip[1].htmlFiles)

\* the place in the archived page of the p-th atom of the substituted page:
\* the global scripts are inserted before the first closing head tag
ArchivePos(i, p) ==
    LET at == IndexOf(SubstitutedPage(i), "</head>", 1)
    IN  IF at = 0 \/ p < at THEN p
        ELSE p + Len(ArchivedPage(i)) - Len(SubstitutedPage(i))

\* the pages with every new file name marked, to find the places where
\* substituteAllPlaceholders puts the name of a link target
LinkMark(name) == "@" \o name
LinkMarked(hfs) == [j \in 1..Len(hfs) |-> [hfs[j] EXCEPT !.newFileName = LinkMark(@)]]

\* C5: in the archive, at every place where a page holds a link placeholder
\* with target T, stands T.newFileName, whatever renames happened
LinkReplacedByTargetName ==
    zip # Null =>
        \A i \in 1..Len(zip[1].htmlFiles) :
            LET hfs == zip[1].htmlFiles
                marked == substituteAllPlaceholders(hfs[i], LinkMarked(hfs))
            IN  \A p \in 1..Len(marked) :
                    marked[p] \in {LinkMark(hfs[j].newFileName) : j \in 1..Len(hfs)}
                        => marked[p] = LinkMark(ArchivedPage(i)[ArchivePos(i, p)])

\* what a browser makes of a reference: percent-encoded characters are decoded
PercentDecoded(path) ==
    [n \in 1..Len(path) |-> IF path[n] = "o%20nas.html" THEN "o nas.html" ELSE path[n]]

ResolvedPath(dir, path) == ResolveFrom(dir, PercentDecoded(path))

\* C6: in the archive every relative href or src of a page that resolves to
\* the original path of an uploaded HTML file F resolves to the final path of
\* F; a reference that begins with http:// or https://, and a reference to a
\* file that is no HTML file, is unchanged
HrefsFollowRenames ==
    zip # Null =>
        \A i \in 1..Len(zip[1].htmlFiles) :
            LET hfs == zip[1].htmlFiles
                dir == DirOf(hfs[i].path)
                S == SubstitutedPage(i)
            IN  \A p \in 1..Len(S) :
                    S[p] \in QuotedAttrOpeners =>
                        LET q == FirstQuoteBearing(S, p + 1)
                            path == SubSeq(S, p + 1, q - 1)
                            archived == SubSeq(ArchivedPage(i), ArchivePos(i, p + 1),
                                               ArchivePos(i, q - 1))
                        IN  IF path = <<>> THEN TRUE
                            ELSE IF path[1] \in Schemes THEN archived = path
                            ELSE IF \E j \in 1..Len(hfs) : hfs[j].path = ResolvedPath(dir, path)
                            THEN \A j \in 1..Len(hfs) :
                                    hfs[j].path = ResolvedPath(dir, path)
                                        => ResolvedPath(dir, archived) = FinalPath(hfs[j])
                            ELSE (\A j \in 1..Len(hfs) : hfs[j].name # path[Len(path)])
                                    => archived = path

\* C7: the archive holds every uploaded file that is no HTML file at its
\* original path with its original content, every HTML file at its directory
\* plus newFileName with the content written for it, and the generated
\* README.md and vercel.json
ArchiveHoldsEveryFile ==
    zip # Null =>
        LET z == zip[1]
        IN  /\ \A i \in 1..Len(z.files) :
                  z.files[i].type # "text/html" =>
                      /\ z.files[i].path \in DOMAIN z.entries
                      /\ z.entries[z.files[i].path] = z.files[i].content
            /\ \A i \in 1..Len(z.htmlFiles) :
                  /\ FinalPath(z.htmlFiles[i]) \in DOMAIN z.entries
                  /\ z.entries[FinalPath(z.htmlFiles[i])] = z.calls[i][2]
            /\ <<"README.md">> \in DOMAIN z.entries
            /\ z.entries[<<"README.md">>] = TextContent(deploymentInstructions)
            /\ <<"vercel.json">> \in DOMAIN z.entries
            /\ z.entries[<<"vercel.json">>] = TextContent(VercelJson)

\* the closing head tag in either letter case
ClosingHeadTags == {"</head>", "</HEAD>"}

RECURSIVE FirstIn(_, _, _)
FirstIn(c, atoms, p) ==
    IF p > Len(c) THEN 0 ELSE IF c[p] \in atoms THEN p ELSE FirstIn(c, atoms, p + 1)

\* C8: when the global scripts are not blank, every archived page with a
\* closing head tag holds the trimmed scripts and a line break immediately
\* before it; when they are blank the page is as without scripts
ScriptsBeforeClosingHead ==
    zip # Null =>
        \A i \in 1..Len(zip[1].htmlFiles) :
            LET scripts == Trim(zip[1].globalScripts)
                page == ArchivedPage(i)
                h == FirstIn(page, ClosingHeadTags, 1)
            IN  IF scripts = <<>>
                THEN page = FinalContent(zip[1].htmlFiles[i], zip[1].htmlFiles, <<>>)
                ELSE h # 0 =>
                        /\ h > Len(scripts) + 1
                        /\ SubSeq(page, h - Len(scripts) - 1, h - 2) = scripts
                        /\ page[h - 1] = "\n"

\* C9: the package button can be pressed exactly when it is on the screen,
\* some HTML file is flagged as the main page and no archive is being
\* generated, in every reachable state (also after the main page was deleted
\* or the project was reset)
PackageEnabledIffMainPage ==
    (ENABLED handlePackageZip) <=> (GlobalPanelShown /\ hasMainPage /\ ~isLoading.zipping)

\* an archive is being generated for a project that has lost its main page
\* since, with the package button on the screen
PackagingAfterMainPageDeleted ==
    /\ zip # Null
    /\ isLoading.zipping
    /\ \E i \in 1..Len(zip[1].htmlFiles) : zip[1].htmlFiles[i].isMain
    /\ ~hasMainPage
    /\ GlobalPanelShown

\* a handleOptimizeNames call ends with success
OptimizeCompletes ==
    /\ optimizeOp # Null
    /\ optimizeOp' = Null
    /\ notification' = Notice(MsgOptimized, "success")

\* C10: the step that completes handleOptimizeNames with success changes no
\* file's isMain flag, content or placeholder maps, leaves the main page's
\* name as it is and gives every other page a name of the form <name>.html
\* that the AI reply determines
OptimizeKeepsPages ==
    [][OptimizeCompletes =>
          /\ Len(htmlFiles') = Len(htmlFiles)
          /\ \A i \in 1..Len(htmlFiles) :
                /\ i <= Len(htmlFiles')
                /\ htmlFiles'[i].isMain = htmlFiles[i].isMain
                /\ htmlFiles'[i].content = htmlFiles[i].content
                /\ htmlFiles'[i].placeholders = htmlFiles[i].placeholders
                /\ htmlFiles'[i].placeholderValues = htmlFiles[i].placeholderValues
                /\ htmlFiles'[i].linkPlaceholders = htmlFiles[i].linkPlaceholders
                /\ IF htmlFiles[i].isMain
                   THEN htmlFiles'[i].newFileName = htmlFiles[i].newFileName
                   ELSE htmlFiles'[i].newFileName
                            \in {"o-nas.html", "optimized-page.html"}]_vars

\* the request for some file of the handleOptimizeNames call in flight fails
\* with error
OptimizeFails(error) ==
    /\ optimizeOp # Null
    /\ \E i \in 1..Len(optimizeOp[1].htmlFiles) : optimizeReject(i, error)

\* C11: the step in which a request of handleOptimizeNames fails changes no
\* file and no new file name, in memory or in local storage, sets an error
\* notification, opens the settings modal when the error is the invalid-key
\* error, and leaves no request of the call awaited (nothing is retried); a
\* call ends in no other way than with success or with such a failure, and
\* until it ends it changes nothing of the project
OptimizeFailureChangesNothing ==
    [][/\ \A error \in ErrorsOfOptimize :
             OptimizeFails(error) =>
                 /\ UNCHANGED <<files, htmlFiles, globalScripts, stored>>
                 /\ notification' # Null
                 /\ notification'[1].type = "error"
                 /\ error = ErrInvalidKey => isSettingsModalOpen'
                 /\ optimizeOp' = Null
                 /\ ~isLoading'.optimizing
       /\ (optimizeOp # Null /\ optimizeOp' = Null) =>
             \/ OptimizeCompletes
             \/ \E error \in ErrorsOfOptimize : OptimizeFails(error)
       /\ (optimizeOp' # optimizeOp /\ optimizeOp' # Null /\ optimizeOp # Null) =>
             UNCHANGED <<files, htmlFiles, globalScripts, stored>>]_vars

\* a call failed with the invalid-key error after one of its requests had
\* been answered: the pages keep their names and the settings modal is open
OptimizeFailedAfterAnAnswer ==
    /\ optimizeOp = Null
    /\ ~isLoading.optimizing
    /\ notification = Notice(MsgInvalidKey, "error")
    /\ isSettingsModalOpen
    /\ Len(htmlFiles) = 2
    /\ \A i \in 1..Len(htmlFiles) : htmlFiles[i].newFileName = htmlFiles[i].name

\* the reply is malformed: after the clean-up it holds no doctype
Malformed(reply) == reply.error = "" /\ ~HasDoctype(StripFences(reply.text))

\* C12: when the reply to applyAnalysisFixes is malformed, the content of the
\* selected file stays as it is in files and in htmlFiles, and the error
\* notification is the malformed-reply message, not the message of an API
\* failure
MalformedReplyIsReported ==
    [][\A reply \in RepliesOfFix :
          (Malformed(reply) /\ fixReplied(reply)) =>
              /\ UNCHANGED <<files, htmlFiles>>
              /\ notification' = Notice(ErrMalformed, "error")]_vars

\* C13: with no API key stored, a step of handleOptimizeNames or of
\* handleAnalyzeContent starts no AI request, sets the error notification
\* that asks for the key, opens the settings modal, and leaves files,
\* htmlFiles, the stored project and every isLoading flag as they are
NoKeyNoRequest ==
    [][(apiKey = "" /\ (handleOptimizeNames \/ \E id \in IdsShown : handleAnalyzeContent(id)))
          => /\ UNCHANGED <<files, htmlFiles, globalScripts, stored, isLoading>>
             /\ UNCHANGED <<uploads, optimizeOp, analyzeOps, fixOp>>
             /\ notification' = Notice(MsgNeedKey, "error")
             /\ isSettingsModalOpen']_vars

\* an audit was asked for with no key stored: the key is asked for, the
\* modal is open, nothing is loading and no request is awaited
AuditAskedWithoutKey ==
    /\ apiKey = ""
    /\ htmlFiles # <<>>
    /\ sidebarView = "analysis"
    /\ currentAnalysisReport = ReportNeedKey
    /\ notification = Notice(MsgNeedKey, "error")
    /\ isSettingsModalOpen
    /\ isLoading.analyzingFileId = NoId
    /\ InFlight = 0

\* the fields of a file, and of a page, that the round trip is to keep
SameFile(f, g) ==
    /\ f.id = g.id /\ f.path = g.path /\ f.name = g.name /\ f.type = g.type
    /\ f.content.kind = g.content.kind
    /\ f.content.data = g.content.data

SamePage(f, g) ==
    /\ f.id = g.id /\ f.path = g.path /\ f.name = g.name /\ f.type = g.type
    /\ f.content = g.content
    /\ f.isMain = g.isMain /\ f.newFileName = g.newFileName
    /\ f.placeholders = g.placeholders
    /\ f.placeholderValues = g.placeholderValues
    /\ f.linkPlaceholders = g.linkPlaceholders

\* C14: for every project state the application reaches, rehydrating what
\* persistState makes of it yields the same files and HTML files in the same
\* order, with the same id, path, name, type and content (binary content
\* byte for byte), the same isMain, newFileName, placeholders,
\* placeholderValues and linkPlaceholders, and the same globalScripts
RehydrateAfterPersist ==
    LET again == Rehydrated(persistState(files, htmlFiles, globalScripts))
    IN  /\ Len(again.files) = Len(files)
        /\ \A i \in 1..Len(files) : SameFile(again.files[i], files[i])
        /\ Len(again.htmlFiles) = Len(htmlFiles)
        /\ \A i \in 1..Len(htmlFiles) : SamePage(again.htmlFiles[i], htmlFiles[i])
        /\ again.globalScripts = globalScripts

\* the page was loaded again with a stored project that holds images of one
\* and of two bytes, a page with a value typed in and global scripts
ProjectLoadedAgain ==
    /\ files # <<>>
    /\ \A i \in 1..Len(files) : "isBinary" \in DOMAIN files[i]
    /\ \E i \in 1..Len(files) :
          files[i].content.kind = "ArrayBuffer" /\ Len(files[i].content.data) = 1
    /\ \E i \in 1..Len(htmlFiles) :
          /\ htmlFiles[i].isMain
          /\ htmlFiles[i].placeholderValues = << << <<"a">>, <<"v">> >> >>
    /\ globalScripts = <<"<script>">>

\* C15: in every reachable state the project in local storage is the
\* serialisation of the project in memory (every change goes through
\* updateProjectState, clearProjectState or rehydration), and with no
\* stored entry the project in memory is empty
StoredIsSerialised ==
    IF stored = Null
    THEN files = <<>> /\ htmlFiles = <<>> /\ globalScripts = <<>>
    ELSE LET again == Rehydrated(stored[1])
         IN  /\ Len(again.files) = Len(files)
             /\ \A i \in 1..Len(files) : SameFile(again.files[i], files[i])
             /\ Len(again.htmlFiles) = Len(htmlFiles)
             /\ \A i \in 1..Len(htmlFiles) : SamePage(again.htmlFiles[i], htmlFiles[i])
             /\ again.globalScripts = globalScripts

\* the project is empty in memory and absent from local storage
ProjectEmpty ==
    /\ files = <<>>
    /\ htmlFiles = <<>>
    /\ globalScripts = <<>>
    /\ stored = Null

\* C16: a project that is empty in memory and in local storage (the state
\* resetState leaves) stays empty as long as no processFiles call is waiting
\* for its readers: whatever else was in flight when resetState was invoked,
\* its completion does not bring pages back
ResetProjectStaysEmpty ==
    [][(ProjectEmpty /\ uploads = <<>>) => ProjectEmpty']_vars

\* C17: the stored key changes only when it is saved in the dialog, to the
\* text of the input, with the notice of a saved key (typing, cancel,
\* resetState, logout and a reload leave it alone); the input shows the
\* stored key when the dialog opens; a request for fixes carries the stored key
KeyChangesOnlyWhenSaved ==
    [][/\ apiKey' # apiKey =>
            /\ isSettingsModalOpen /\ ~isSettingsModalOpen'
            /\ apiKey' = tempApiKey
            /\ notification' = Notice(MsgKeySaved, "success")
       /\ (~isSettingsModalOpen /\ isSettingsModalOpen') => tempApiKey' = apiKey
       /\ (fixOp = Null /\ fixOp' # Null) => fixOp'[1].apiKey = apiKey]_vars

\* a key that was not stored at the start was saved, and the project was
\* reset or the page loaded again after that
SavedKeyOutlivesReset ==
    /\ apiKey = "key2"
    /\ tempApiKey = "key2"
    /\ ~isSettingsModalOpen
    /\ notification = Null
    /\ ProjectEmpty

\* C18: whatever the order in which the requests of a handleOptimizeNames
\* call are answered, the step that completes the call leaves htmlFiles with
\* the files the call was started on, in their order, the main page named as
\* before and every other page named after the suggestion for its own content
NamesFollowContent ==
    [][OptimizeCompletes =>
          LET op == optimizeOp[1]
          IN  /\ Len(htmlFiles') = Len(op.htmlFiles)
              /\ \A i \in 1..Len(op.htmlFiles) :
                    /\ htmlFiles'[i].id = op.htmlFiles[i].id
                    /\ htmlFiles'[i].content = op.htmlFiles[i].content
                    /\ htmlFiles'[i].newFileName =
                           IF op.htmlFiles[i].isMain THEN op.htmlFiles[i].newFileName
                           ELSE optimizeFileName(SuggestionFor(op.htmlFiles[i].content))
                                    \o ".html"]_vars

\* of two requests in flight the one for the later page was answered first
LaterPageAnsweredFirst ==
    /\ optimizeOp # Null
    /\ \E i, j \in NonMainIdx(optimizeOp[1].htmlFiles) :
          /\ i < j
          /\ optimizeOp[1].names[i] = ""
          /\ optimizeOp[1].names[j] # ""

\* the file of a batch is in the project: a file of the project has its id
InProject(file, batch) ==
    \E j \in 1..Len(files) :
        files[j].id = FileIdOf(PathOfUpload(file, commonBasePath(batch)), file.lastModified)

\* C20: when the readers of a processFiles call have settled, the notice
\* that all the selected files are already added is shown, with the project
\* unchanged, exactly when every file of the batch is in the project
AllAddedNoticeIffAllInProject ==
    [][\A k \in 1..Len(uploads) : \A failed \in SUBSET Range(uploads[k].readIdx) :
          processFilesLoaded(k, failed) =>
             ((notification' = Notice(MsgAllAdded, "info") /\ UNCHANGED projectVars)
                 <=> \A i \in 1..Len(uploads[k].batch) :
                        InProject(uploads[k].batch[i], uploads[k].batch))]_vars

\* C19: after every change of files or htmlFiles, once the preview effect
\* has run, previewUrls holds exactly one entry for each HTML file of the
\* project, and the entry of a file is a URL created from the content of
\* that file with its latest placeholder values and link targets substituted
PreviewsAreCurrent ==
    /\ Len(previewUrls) = Len(htmlFiles)
    /\ \A i \in 1..Len(htmlFiles) :
          /\ ObjHas(previewUrls, htmlFiles[i].id)
          /\ MapGet(previewUrls, htmlFiles[i].id)
                 = PreviewUrl(substituteAllPlaceholders(htmlFiles[i], htmlFiles),
                              htmlFiles[i].path)

\* C21: whenever the package button is enabled, two HTML files of different
\* ids have different archive paths (directory of the original path plus
\* newFileName), so that no page of the archive replaces another
ArchivePathsAreDistinct ==
    ~PackageButtonDisabled =>
        \A i, j \in 1..Len(htmlFiles) :
            htmlFiles[i].id # htmlFiles[j].id
                => FinalPath(htmlFiles[i]) # FinalPath(htmlFiles[j])

=============================================================================
